---- MODULE Spec2Model ----
(***************************************************************************)
(* ConversionEngine (app/core/conversion_engine.py) and BatchProcessor     *)
(* (app/core/batch_processor.py) as a state machine.                       *)
(*                                                                         *)
(* Threads: "w" is the worker thread that runs ConversionEngine.start();   *)
(* "c" is the thread that calls ConversionEngine.stop() (the GUI thread    *)
(* for a single conversion, the batch thread inside process_all).  The     *)
(* batch thread's position in process_all is bpc.                          *)
(*                                                                         *)
(* External processes: 1 is the pass-1 process, 2 the pass-2 process.     *)
(***************************************************************************)
EXTENDS Integers, FiniteSets, Sequences, TLC

\* ---------------------------------------------------------------- bounds
\* Largest number of seconds a Duration: or time= line may carry.
MaxSec == 2
\* Number of jobs in the batch queue.
MaxJobs == 3
\* Largest number of seconds of a line when the progress formula is exercised
\* on its own (SpecProgress): two minutes.
MaxTotal == 120
\* Largest number of names (hwaccels and hardware encoders) ffmpeg lists.
MaxListed == 2
\* Largest number of messages in the stderr of a trial encode.
MaxMessages == 2
\* Largest number of lines of interest in the stderr of a failed conversion.
MaxMarked == 2
\* Largest number of ordinary lines that follow them.
MaxTail == 20
\* Largest number of seconds (elapsed, current, total) when the remaining-time
\* estimate is exercised on its own.
MaxElapsed == 4
\* Largest number of nested calls of the command builders before the
\* interpreter raises RecursionError (sys.getrecursionlimit(), 1000 by default).
RecursionLimit == 4
\* Largest number of two-pass jobs the main window builds.
MaxBuilds == 3
\* Largest reading of the clock, in milliseconds after the first reading.
MaxClock == 2

VARIABLES
    twoPass,        \* pass2_command (and passlogfile) given to the engine
    pc,             \* pc["w"]: worker position, pc["c"]: position inside stop()
    process,        \* self.process: 0 = None, 1 = pass-1 Popen, 2 = pass-2 Popen
    proc,           \* state of each external process
    closed,         \* closed[p]: the engine closed the pipes of process p
    should_stop,    \* ConversionEngine._should_stop
    current_pass,   \* ConversionEngine.current_pass
    logFile,        \* some pass-log file of the current job exists on disk
    total,          \* total_seconds of _monitor_progress, -1 = None
    lastProg,       \* 'progress' of the last progress_updated of this pass, -1 = none
    nFinished,      \* conversion_finished emissions of the current engine
    nError,         \* conversion_error emissions of the current engine
    cause,          \* why the last conversion_error was emitted
    lastEvent,      \* last signal the engine emitted, with the pass fields of
                    \* the last progress_updated dict
    current_seconds, \* current_seconds of the last progress_updated of this pass, -1 = none
    sent,           \* sent[p]: the signals _terminate_process sent to process p
    bpc,            \* batch thread position in process_all ("off": no batch)
    index,          \* loop variable of process_all (1-based)
    bstop,          \* BatchProcessor._should_stop
    conversion_finished, \* local flag of process_all
    conversion_error,    \* local of process_all: an error message was stored
    status,         \* BatchJob.status per job
    nStarted,       \* job_started emissions
    allDone,        \* all_jobs_completed emissions
    orphans,        \* processes of earlier jobs' engines that are still alive
    engineResult,   \* per job: the terminal event its engine emitted
    engineStopped,  \* per job: process_all called engine.stop()
    stopAt,         \* job that was running when BatchProcessor.stop() was called, 0 = none
    lastSignal,     \* the last signal BatchProcessor emitted: its name and its job
    windows,        \* platform.system() == 'Windows'
    supported_hwaccels, \* GPUDetector.supported_hwaccels (the names the code looks for)
    supported_encoders, \* GPUDetector.supported_encoders (the hardware encoder names)
    supported_decoders, \* GPUDetector.supported_decoders (the hardware decoder names)
    ran,            \* how each listing command of the running constructor ended
    detected_gpus,  \* GPUDetector.detected_gpus: the vendors, in detection order
    supported_codecs, \* GPUInfo.supported_codecs of each vendor's GPUInfo
    passed,         \* encoders for which _test_encoder returned True
    gpc,            \* position of the method under study ("off": none)
    gi,             \* _detect_gpu_capabilities: index of the GPU being probed
    ei,             \* _detect_gpu_capabilities: index of the encoder being tested
    query,          \* arguments of the current call of the method under study
    answer,         \* what that call returned
    clock,          \* int(time.time() * 1000), counted from the first reading
    built           \* the two-pass jobs built so far: output file and passlogfile

engineVars == <<twoPass, pc, process, proc, closed, should_stop, current_pass,
                logFile, total, lastProg, nFinished, nError, cause,
                lastEvent, current_seconds, sent>>
batchVars  == <<bpc, index, bstop, conversion_finished, conversion_error, status,
                nStarted, allDone, orphans, engineResult, engineStopped, stopAt,
                lastSignal>>
gpuVars    == <<windows, supported_hwaccels, supported_encoders, supported_decoders,
                ran, detected_gpus, supported_codecs, passed, gpc, gi, ei, query, answer>>
uiVars     == <<clock, built>>
vars == <<engineVars, batchVars, gpuVars, uiVars>>

Procs == 1..2
Jobs  == 1..MaxJobs
Secs  == 0..MaxSec

Min(a, b) == IF a < b THEN a ELSE b

Alive(p)  == proc[p] \in {"running", "eof", "dying"}
Exited(p) == proc[p] \in {"exit0", "exit1"}

\* Popen.returncode: -1 stands for None (not waited / not exited).
returncode(p) == IF proc[p] = "exit0" THEN 0 ELSE IF proc[p] = "exit1" THEN 1 ELSE -1

\* ------------------------------------------------------- progress values
RECURSIVE Pow2(_)
Pow2(n) == IF n = 0 THEN 1 ELSE 2 * Pow2(n - 1)

\* (c * 2^n) mod T, by n doublings.
RECURSIVE ShiftMod(_, _, _)
ShiftMod(c, n, T) == IF n = 0 THEN c % T ELSE (2 * ShiftMod(c, n - 1, T)) % T

\* For 0 < c < T, the least s with c * 2^s >= T: c/T lies in [2^-s, 2^(1-s)).
RECURSIVE Binade(_, _)
Binade(c, T) == IF c >= T THEN 0 ELSE 1 + Binade(2 * c, T)

\* For an integer k >= 1, the e >= -1 with 2^e < k <= 2^(e+1): the doubles just
\* below k lie in [2^e, 2^(e+1)) and are 2^(e-52) apart.
RECURSIVE BelowExp(_, _)
BelowExp(k, e) == IF Pow2(e + 1) >= k THEN e ELSE BelowExp(k, e + 1)

\* current_seconds / total_seconds in IEEE double precision (53-bit
\* significand, round to nearest), for 0 < c < T with T dividing 100*c: the
\* quotient is c*2^(52+s)/T rounded to an integer, over 2^(52+s), s = Binade(c,T).
\* rem is what the rounding drops; the quotient is rounded down when rem < T/2
\* (rem = T/2 cannot happen: T would divide c*2^(53+s) and then c*2^(52+s)).
\* Times 100 that is k - 100*rem/(T*2^(52+s)) for k = 100*c/T, which the
\* multiplication rounds to the double below k exactly when it is nearer to it
\* than to k: 200*rem > T*2^(s+e), e = BelowExp(k).  Then int() gives k - 1.
FloatShortfall(c, T) ==
    LET s   == Binade(c, T)
        rem == ShiftMod(c, 52 + s, T)
        k   == (100 * c) \div T
        e   == BelowExp(k, -1)
    IN  rem > 0 /\ 2 * rem < T /\ 200 * rem > T * Pow2(s + e)

\* int((current_seconds / total_seconds) * 100) in double precision.  When T
\* does not divide 100*c the exact value is at least 1/T away from an integer,
\* far more than the rounding error, and int() gives the exact floor.  For
\* c >= T the quotient is >= 1.0 and the product >= 100.0, so a shortfall there
\* cannot go below 100 and the floor stands for it.
IntPercent(c, T) ==
    IF c >= T \/ c = 0 \/ (100 * c) % T # 0 THEN (100 * c) \div T
    ELSE IF FloatShortfall(c, T) THEN ((100 * c) \div T) - 1
    ELSE (100 * c) \div T

\* pass_progress = min(pass_progress, 100)
PassProgress(c, T) == Min(IntPercent(c, T), 100)

\* Variant: the per-pass value is reported as it is.
OverallProgressUnscaled(p, two, pass) == p

\* overall_progress: pass 1 of two maps to int(p * 0.5), pass 2 of two to
\* int(50 + p * 0.5), a single pass to p.
OverallProgress(p, two, pass) ==
    IF two
    THEN IF pass = 1 THEN p \div 2 ELSE 50 + (p \div 2)
    ELSE p

\* No signal emitted yet.
NoEvent == [signal |-> "none", current_pass |-> 0, total_passes |-> 0]

\* self.total_passes = 2 if pass2_command else 1
total_passes == IF twoPass THEN 2 ELSE 1

\* Variant: the event counts the passes down.
ProgressEventCountdown ==
    [signal |-> "progress", current_pass |-> total_passes - current_pass + 1,
     total_passes |-> total_passes]

\* The 'current_pass' and 'total_passes' entries of the progress_updated dict.
ProgressEvent ==
    [signal |-> "progress", current_pass |-> current_pass, total_passes |-> total_passes]

\* ------------------------------------------------------------- emissions
\* Variant: the error is emitted by the inner handler and again by the outer one.
EmitErrorTwice(why) ==
    /\ nError' = nError + 2
    /\ cause' = why
    /\ lastEvent' = [lastEvent EXCEPT !.signal = "error"]
    /\ UNCHANGED nFinished

\* self.conversion_error.emit(msg)
EmitError(why) ==
    /\ nError' = nError + 1
    /\ cause' = why
    /\ lastEvent' = [lastEvent EXCEPT !.signal = "error"]
    /\ UNCHANGED nFinished

\* self.conversion_finished.emit()
EmitFinished ==
    /\ nFinished' = nFinished + 1
    /\ lastEvent' = [lastEvent EXCEPT !.signal = "finished"]
    /\ UNCHANGED <<nError, cause>>

\* No signal is emitted.
NoTerminal == UNCHANGED <<nFinished, nError, cause, lastEvent>>

\* _cleanup_passlogfiles: unlink every file <passlogfile><suffix> that exists.
\* Without a passlogfile (single pass) no file exists and nothing changes.
CleanupPasslogfiles == logFile' = FALSE

\* ------------------------------------------------------ worker: start()
\* What Popen(self.command) can do: return a process, or raise
\* FileNotFoundError, PermissionError or another exception.
Launches == {"ok", "FileNotFoundError", "PermissionError", "OSError"}

\* Variant: one message for every exception.
LaunchMessageUnclassified(exc) == "launch"

\* The except clauses of start(): the message names the kind of failure
\* ("FFmpeg не найден", "Нет прав доступа", "Ошибка запуска конвертации").
LaunchMessage(exc) ==
    CASE exc = "FileNotFoundError" -> "launch_not_found"
      [] exc = "PermissionError"   -> "launch_no_permission"
      [] OTHER                     -> "launch_failed"

\* start(): Popen(self.command); a launch failure emits conversion_error with
\* the message of its except clause.
Start ==
    /\ pc["w"] = "start"
    /\ \E launch \in Launches :
         IF launch = "ok"
         THEN /\ process' = 1
              /\ proc' = [proc EXCEPT ![1] = "running"]
              /\ pc' = [pc EXCEPT !["w"] = "read"]
              /\ NoTerminal
         ELSE /\ EmitError(LaunchMessage(launch))
              /\ pc' = [pc EXCEPT !["w"] = "done"]
              /\ UNCHANGED <<process, proc>>
    /\ UNCHANGED <<twoPass, closed, should_stop, current_pass, logFile, total, lastProg, current_seconds, sent>>
    /\ UNCHANGED batchVars
    /\ UNCHANGED <<gpuVars, uiVars>>

\* ------------------------------------------- worker: _monitor_progress
\* Variant: every Duration line sets the total.
TotalAfterLatest(kind, v, t) == IF kind = "dur" THEN v ELSE t

\* `if total_seconds is None:` and a Duration match: the total is set by a
\* Duration line only while it is None (-1).
TotalAfter(kind, v, t) == IF kind = "dur" /\ t = -1 THEN v ELSE t

\* The body of the loop for one line that was read with the stop flag unset.
\* kind "dur" is a line matching Duration: HH:MM:SS, "time" a line matching
\* time=HH:MM:SS, "other" any other line; v is the number of seconds it gives.
ProcessLine(kind, v) ==
    /\ total' = TotalAfter(kind, v, total)
    /\ IF kind = "time" /\ total > 0
       THEN /\ lastProg' = OverallProgress(PassProgress(v, total), twoPass, current_pass)
            /\ current_seconds' = v
            /\ lastEvent' = ProgressEvent
       ELSE UNCHANGED <<lastProg, current_seconds, lastEvent>>
    /\ UNCHANGED <<nFinished, nError, cause>>

\* One iteration of `for line in self.process.stderr` that yields a line whose
\* Duration: or time= value, if it has one, is taken from S.
ReadLineFrom(S) ==
    /\ pc["w"] = "read"
    /\ ~closed[process]
    /\ \E kind \in {"other", "dur", "time"}, v \in S :
         /\ kind = "other" => v = 0
         /\ IF should_stop
            THEN \* the stop flag is seen: _terminate_process, cleanup, return
                 /\ kind = "other"
                 /\ pc' = [pc EXCEPT !["w"] = "t_term"]
                 /\ total' = -1
                 /\ lastProg' = -1
                 /\ current_seconds' = -1
                 /\ NoTerminal
            ELSE /\ ProcessLine(kind, v)
                 /\ UNCHANGED pc
    /\ UNCHANGED <<twoPass, process, proc, closed, should_stop, current_pass, logFile, sent>>
    /\ UNCHANGED batchVars
    /\ UNCHANGED <<gpuVars, uiVars>>

ReadLine == ReadLineFrom(Secs)

\* The stream ends: the process closed its stderr (or is gone).
ReadEOF ==
    /\ pc["w"] = "read"
    /\ ~closed[process]
    /\ proc[process] \in {"eof", "dying", "exit0", "exit1"}
    /\ pc' = [pc EXCEPT !["w"] = "wait"]
    /\ total' = -1
    /\ lastProg' = -1
    /\ current_seconds' = -1
    /\ NoTerminal
    /\ UNCHANGED <<twoPass, process, proc, closed, should_stop, current_pass, logFile, sent>>
    /\ UNCHANGED batchVars
    /\ UNCHANGED <<gpuVars, uiVars>>

\* Reading raises: the pipe was closed by _terminate_process in the other thread
\* (ValueError), or a line cannot be decoded (UnicodeDecodeError).  The handler
\* of _monitor_progress emits conversion_error and returns; it neither
\* terminates the process nor cleans the pass-log.
ReadRaises ==
    /\ pc["w"] = "read"
    /\ EmitError("monitor")
    /\ pc' = [pc EXCEPT !["w"] = "done"]
    /\ total' = -1
    /\ lastProg' = -1
    /\ current_seconds' = -1
    /\ UNCHANGED <<twoPass, process, proc, closed, should_stop, current_pass, logFile, sent>>
    /\ UNCHANGED batchVars
    /\ UNCHANGED <<gpuVars, uiVars>>

\* Variant: no wait(); a return code that is still None reads as success.
ReturnCodePolled(p, r) == IF Exited(p) THEN returncode(p) = r ELSE r = 0

\* self.process.wait() returned and self.process.returncode is r.
ReturnCodeAfterWait(p, r) == Exited(p) /\ returncode(p) = r

\* Variant: the test inverted.
ExitOkNegated(r) == r # 0

\* `if self.process.returncode == 0`
ExitOk(r) == r = 0

\* The exit-code check that follows the loop: after a successful pass 1 of a
\* two-pass job go on to pass 2; after any other successful pass clean up and
\* emit conversion_finished; after a failed pass clean up and emit
\* conversion_error.
ExitCheck ==
    /\ pc["w"] = "wait"
    /\ \E r \in {0, 1} :
         /\ ReturnCodeAfterWait(process, r)
         /\ IF ExitOk(r)
            THEN IF current_pass = 1 /\ twoPass
                 THEN /\ current_pass' = 2
                      /\ pc' = [pc EXCEPT !["w"] = "pass2"]
                      /\ NoTerminal
                      /\ UNCHANGED logFile
                 ELSE /\ CleanupPasslogfiles
                      /\ EmitFinished
                      /\ pc' = [pc EXCEPT !["w"] = "done"]
                      /\ UNCHANGED current_pass
            ELSE /\ CleanupPasslogfiles
                 /\ EmitError("exit")
                 /\ pc' = [pc EXCEPT !["w"] = "done"]
                 /\ UNCHANGED current_pass
    /\ UNCHANGED <<twoPass, process, proc, closed, should_stop, total, lastProg, current_seconds, sent>>
    /\ UNCHANGED batchVars
    /\ UNCHANGED <<gpuVars, uiVars>>

\* _start_pass2: Popen(self.pass2_command), then _monitor_progress again; a
\* launch failure emits conversion_error (no cleanup).
StartPass2 ==
    /\ pc["w"] = "pass2"
    /\ \E ok \in BOOLEAN :
         IF ok
         THEN /\ process' = 2
              /\ proc' = [proc EXCEPT ![2] = "running"]
              /\ pc' = [pc EXCEPT !["w"] = "read"]
              /\ NoTerminal
         ELSE /\ EmitError("launch2")
              /\ pc' = [pc EXCEPT !["w"] = "done"]
              /\ UNCHANGED <<process, proc>>
    /\ UNCHANGED <<twoPass, closed, should_stop, current_pass, logFile, total, lastProg, current_seconds, sent>>
    /\ UNCHANGED batchVars
    /\ UNCHANGED <<gpuVars, uiVars>>

\* ------------------------------- _terminate_process, in thread t
\* Popen.terminate() / Popen.kill() poll the process first and send nothing to
\* one that has exited.  sent[p] keeps what process p was sent and in which
\* order: "none", "term", "term_kill", or "kill" when kill came first.
SendTerminate(p) ==
    sent' = [sent EXCEPT ![p] = IF Alive(p) /\ @ = "none" THEN "term" ELSE @]

SendKill(p) ==
    sent' = [sent EXCEPT ![p] = IF ~Alive(p) THEN @
                                ELSE IF @ = "term" THEN "term_kill"
                                ELSE IF @ = "none" THEN "kill"
                                ELSE @]

\* `if not self.process: return`, else self.process.terminate().  SIGTERM is a
\* request: the process exits when it gets to it (ProcExit) or not at all.
TermSignal(t) ==
    /\ pc[t] = "t_term"
    /\ pc' = [pc EXCEPT ![t] = IF process = 0 THEN "cleanup" ELSE "t_wait"]
    /\ IF process = 0 THEN UNCHANGED sent ELSE SendTerminate(process)
    /\ NoTerminal
    /\ UNCHANGED <<twoPass, process, proc, closed, should_stop, current_pass,
                   logFile, total, lastProg, current_seconds>>
    /\ UNCHANGED batchVars
    /\ UNCHANGED <<gpuVars, uiVars>>

\* self.process.wait(timeout=2): returns when the process has exited, raises
\* TimeoutExpired when it has not.
TermWait(t) ==
    /\ pc[t] = "t_wait"
    /\ pc' = [pc EXCEPT ![t] = IF Exited(process) THEN "t_close" ELSE "t_kill"]
    /\ NoTerminal
    /\ UNCHANGED <<twoPass, process, proc, closed, should_stop, current_pass,
                   logFile, total, lastProg, current_seconds, sent>>
    /\ UNCHANGED batchVars
    /\ UNCHANGED <<gpuVars, uiVars>>

\* self.process.kill(), then wait(timeout=1) which returns or times out; either
\* way the finally clause follows.
TermKill(t) ==
    /\ pc[t] = "t_kill"
    /\ proc' = [proc EXCEPT ![process] = IF Alive(process) THEN "dying" ELSE @]
    /\ SendKill(process)
    /\ pc' = [pc EXCEPT ![t] = "t_close"]
    /\ NoTerminal
    /\ UNCHANGED <<twoPass, process, closed, should_stop, current_pass,
                   logFile, total, lastProg, current_seconds>>
    /\ UNCHANGED batchVars
    /\ UNCHANGED <<gpuVars, uiVars>>

\* finally: close stdout, stderr and stdin of self.process.
TermClose(t) ==
    /\ pc[t] = "t_close"
    /\ closed' = [closed EXCEPT ![process] = TRUE]
    /\ pc' = [pc EXCEPT ![t] = "cleanup"]
    /\ NoTerminal
    /\ UNCHANGED <<twoPass, process, proc, should_stop, current_pass,
                   logFile, total, lastProg, current_seconds, sent>>
    /\ UNCHANGED batchVars
    /\ UNCHANGED <<gpuVars, uiVars>>

\* _cleanup_passlogfiles after _terminate_process: the worker then returns from
\* _monitor_progress without emitting, stop() returns to its caller.
Cleanup(t) ==
    /\ pc[t] = "cleanup"
    /\ CleanupPasslogfiles
    /\ pc' = [pc EXCEPT ![t] = IF t = "w" THEN "done" ELSE "ret"]
    /\ NoTerminal
    /\ UNCHANGED <<twoPass, process, proc, closed, should_stop, current_pass,
                   total, lastProg, current_seconds, sent>>
    /\ UNCHANGED batchVars
    /\ UNCHANGED <<gpuVars, uiVars>>

\* ------------------------------------------------------ external processes
\* A running process closes its stderr (it is about to exit).
ProcCloseStderr ==
    /\ \E p \in Procs :
         /\ proc[p] = "running"
         /\ proc' = [proc EXCEPT ![p] = "eof"]
    /\ UNCHANGED <<twoPass, pc, process, closed, should_stop, current_pass,
                   logFile, total, lastProg, nFinished, nError, cause, current_seconds, sent, lastEvent>>
    /\ UNCHANGED batchVars
    /\ UNCHANGED <<gpuVars, uiVars>>

\* A process exits: with any code on its own or after SIGTERM, with a non-zero
\* code once killed.  A killed process ("dying") runs no more of its code: it
\* writes nothing, it only remains to be reaped.
ProcExit ==
    /\ \E p \in Procs, r \in {"exit0", "exit1"} :
         /\ Alive(p)
         /\ proc[p] = "dying" => r = "exit1"
         /\ proc' = [proc EXCEPT ![p] = r]
    /\ UNCHANGED <<twoPass, pc, process, closed, should_stop, current_pass,
                   logFile, total, lastProg, nFinished, nError, cause, current_seconds, sent, lastEvent>>
    /\ UNCHANGED batchVars
    /\ UNCHANGED <<gpuVars, uiVars>>

\* The pass-1 process of a two-pass job writes its pass-log (-pass 1
\* -passlogfile); the pass-2 process only reads it.
ProcWriteLog ==
    /\ twoPass
    /\ proc[1] \in {"running", "eof"}
    /\ ~logFile
    /\ logFile' = TRUE
    /\ UNCHANGED <<twoPass, pc, process, proc, closed, should_stop, current_pass,
                   total, lastProg, nFinished, nError, cause, current_seconds, sent, lastEvent>>
    /\ UNCHANGED batchVars
    /\ UNCHANGED <<gpuVars, uiVars>>

\* ------------------------------------------------- stop() of the engine
\* ConversionEngine.stop() called from the GUI thread (_stop_conversion) on the
\* engine of a single conversion: set the flag, then _terminate_process and
\* _cleanup_passlogfiles in the calling thread.
GuiStop ==
    /\ bpc = "off"
    /\ pc["c"] = "idle"
    /\ should_stop' = TRUE
    /\ pc' = [pc EXCEPT !["c"] = "t_term"]
    /\ NoTerminal
    /\ UNCHANGED <<twoPass, process, proc, closed, current_pass, logFile, total, lastProg, current_seconds, sent>>
    /\ UNCHANGED batchVars
    /\ UNCHANGED <<gpuVars, uiVars>>

\* ConversionEngine.__init__; wstart is the worker's position.
EngineInit(two, wstart) ==
    /\ twoPass = two
    /\ pc = [t \in {"w", "c"} |-> IF t = "w" THEN wstart ELSE "idle"]
    /\ process = 0
    /\ proc = [p \in Procs |-> "none"]
    /\ closed = [p \in Procs |-> FALSE]
    /\ should_stop = FALSE
    /\ current_pass = 1
    /\ logFile = FALSE
    /\ total = -1
    /\ lastProg = -1
    /\ nFinished = 0
    /\ nError = 0
    /\ cause = "none"
    /\ lastEvent = NoEvent
    /\ current_seconds = -1
    /\ sent = [p \in Procs |-> "none"]

\* A signal of BatchProcessor, with the job index it carries (0: none).
Signal(name, job) == [name |-> name, job |-> job]

\* No signal emitted yet.
NoSignal == Signal("none", 0)

\* BatchProcessor.__init__ and BatchJob.__init__ for every queued job.
BatchIdle(b) ==
    /\ bpc = b
    /\ index = 1
    /\ bstop = FALSE
    /\ conversion_finished = FALSE
    /\ conversion_error = FALSE
    /\ status = [j \in Jobs |-> "pending"]
    /\ nStarted = 0
    /\ allDone = 0
    /\ orphans = 0
    /\ engineResult = [j \in Jobs |-> "none"]
    /\ engineStopped = [j \in Jobs |-> FALSE]
    /\ stopAt = 0
    /\ lastSignal = NoSignal

\* ------------------------------------------- GPUDetector (gpu_detector.py)
\* The hwaccel names _identify_gpus looks for.
HwAccels == {"cuda", "qsv", "vaapi"}

\* The hardware encoder names the code mentions (codecs_to_test and the
\* encoder maps of get_best_encoder), each with the parts of its name:
\* <<name, name.split('_')[0], name.split('_')[1]>>.
HwEncoderParts ==
    { <<"h264_nvenc", "h264", "nvenc">>, <<"hevc_nvenc", "hevc", "nvenc">>,
      <<"av1_nvenc", "av1", "nvenc">>,
      <<"h264_qsv", "h264", "qsv">>, <<"hevc_qsv", "hevc", "qsv">>,
      <<"vp9_qsv", "vp9", "qsv">>, <<"av1_qsv", "av1", "qsv">>,
      <<"mpeg2_qsv", "mpeg2", "qsv">>,
      <<"h264_amf", "h264", "amf">>, <<"hevc_amf", "hevc", "amf">>,
      <<"av1_amf", "av1", "amf">>,
      <<"h264_vaapi", "h264", "vaapi">>, <<"hevc_vaapi", "hevc", "vaapi">>,
      <<"vp8_vaapi", "vp8", "vaapi">>, <<"vp9_vaapi", "vp9", "vaapi">>,
      <<"av1_vaapi", "av1", "vaapi">> }

HwEncoders == {t[1] : t \in HwEncoderParts}

\* encoder.split('_')[0]
CodecPart(e) == (CHOOSE t \in HwEncoderParts : t[1] = e)[2]

\* `x in e` for x one of 'nvenc', 'qsv', 'amf', 'vaapi' and e a listed name.
HasPart(x, e) == (CHOOSE t \in HwEncoderParts : t[1] = e)[3] = x

\* The software encoders _get_software_encoder can return.
SoftwareEncoders == {"libx264", "libx265", "libvpx", "libvpx-vp9", "libaom-av1"}

\* Arguments of get_best_encoder: codec and container after .lower(),
\* preferred_gpu as the GPU selector gives it ("other": any other string).
Codecs     == {"h264", "hevc", "h265", "vp8", "vp9", "av1", "mpeg2", "theora"}
Containers == {"mp4", "mov", "m4v", "webm", "mkv"}
Preferred  == {"none", "auto", "nvidia", "intel", "amd", "other"}
Vendors    == {"nvidia", "intel", "amd", "none"}

\* dict.get(k, default)
Get(m, k, default) == IF k \in DOMAIN m THEN m[k] ELSE default

\* All subsets of S with at most n elements.
RECURSIVE SubsetsUpTo(_, _)
SubsetsUpTo(S, n) ==
    IF n = 0 THEN {{}}
    ELSE LET prev == SubsetsUpTo(S, n - 1)
         IN  prev \cup {s \cup {x} : s \in prev, x \in S}

\* A hardware decoder name, for supported_decoders (which the code fills and
\* never reads).
HwDecoders == {"h264_cuvid"}

\* What `ffmpeg -hwaccels`, `ffmpeg -encoders` and `ffmpeg -decoders` can list,
\* as far as the code looks at it: at most MaxListed of the names it knows.
Listings == SubsetsUpTo(HwAccels \cup HwEncoders \cup HwDecoders, MaxListed)

\* The listing commands of _detect_hardware.
Commands == {"hwaccels", "encoders", "decoders"}

\* The ways subprocess.run of a listing command can end: it returns, it raises
\* TimeoutExpired after 5 s, or it raises another exception (launch failure).
Outcomes == {"ok", "timeout", "oserror"}

\* No listing command has run.
NotRun == [c \in Commands |-> "notrun"]

\* Variant: the text received before the failure is returned.
RunCommandKeepsText(outcome, names) == names

\* _run_command: stdout + stderr of the command, or "" from either except
\* clause.  A text is kept as the set of names it lists; "" lists none.
RunCommand(outcome, names) == IF outcome = "ok" THEN names ELSE {}

\* _parse_hwaccels / _parse_encoders / _parse_decoders: the names on the lines
\* of the text; no line, no name.
ParseHwaccels(text) == text \cap HwAccels
ParseEncoders(text) == text \cap HwEncoders
ParseDecoders(text) == text \cap HwDecoders

\* GPUDetector.__init__ before _detect_hardware: empty lists.
GpuNew(pos) ==
    /\ supported_hwaccels = {}
    /\ supported_encoders = {}
    /\ supported_decoders = {}
    /\ ran = NotRun
    /\ detected_gpus = <<>>
    /\ supported_codecs = [v \in Vendors |-> {}]
    /\ passed = {}
    /\ gpc = pos
    /\ gi = 1
    /\ ei = 1
    /\ query = <<>>
    /\ answer = <<>>

\* The detector is not under study.
GpuOff == windows = FALSE /\ GpuNew("off")

\* _detect_hardware: without an ffmpeg binary no command is run, nothing is
\* listed and no GPU is identified; else the output of each listing command is
\* parsed into its list and _identify_gpus follows.
DetectHardware ==
    /\ gpc = "detect"
    /\ \E found \in BOOLEAN, listed \in Listings, r \in [Commands -> Outcomes] :
         IF found
         THEN /\ ran' = r
              /\ supported_hwaccels' =
                    ParseHwaccels(RunCommand(r["hwaccels"], listed \cap HwAccels))
              /\ supported_encoders' =
                    ParseEncoders(RunCommand(r["encoders"], listed \cap HwEncoders))
              /\ supported_decoders' =
                    ParseDecoders(RunCommand(r["decoders"], listed \cap HwDecoders))
              /\ gpc' = "identify"
         ELSE /\ listed = {}
              /\ r = [c \in Commands |-> "ok"]
              /\ gpc' = "probe"
              /\ UNCHANGED <<ran, supported_hwaccels, supported_encoders, supported_decoders>>
    /\ UNCHANGED <<windows, detected_gpus, supported_codecs, passed, gi, ei, query, answer>>
    /\ UNCHANGED <<engineVars, batchVars, uiVars>>

\* The tests of _identify_gpus, in the order the code makes them.
VendorSeen(v) ==
    CASE v = "nvidia" -> "cuda" \in supported_hwaccels
                         \/ \E e \in supported_encoders : HasPart("nvenc", e)
      [] v = "intel"  -> "qsv" \in supported_hwaccels
                         \/ \E e \in supported_encoders : HasPart("qsv", e)
      [] v = "amd"    -> "vaapi" \in supported_hwaccels
                         \/ \E e \in supported_encoders : HasPart("amf", e)
      [] OTHER        -> FALSE

\* The sequence s without the vendors that were not seen.
RECURSIVE SeenOf(_)
SeenOf(s) ==
    IF s = <<>> THEN <<>>
    ELSE IF VendorSeen(Head(s)) THEN <<Head(s)>> \o SeenOf(Tail(s))
    ELSE SeenOf(Tail(s))

\* _identify_gpus: append NVIDIA, Intel, AMD as seen, in that order; the
\* pseudo-GPU 'none' when none was.
IdentifyGpus ==
    /\ gpc = "identify"
    /\ detected_gpus' = IF SeenOf(<<"nvidia", "intel", "amd">>) = <<>>
                        THEN <<"none">>
                        ELSE SeenOf(<<"nvidia", "intel", "amd">>)
    /\ gpc' = "probe"
    /\ UNCHANGED <<windows, supported_hwaccels, supported_encoders, supported_decoders,
                   ran, supported_codecs, passed, gi, ei, query, answer>>
    /\ UNCHANGED <<engineVars, batchVars, uiVars>>

\* codecs_to_test.get(gpu.vendor, [])
codecs_to_test(vendor) ==
    CASE vendor = "nvidia" -> <<"h264_nvenc", "hevc_nvenc", "av1_nvenc">>
      [] vendor = "intel"  -> <<"h264_qsv", "hevc_qsv", "vp9_qsv", "av1_qsv">>
      [] vendor = "amd"    -> IF windows
                              THEN <<"h264_amf", "hevc_amf", "av1_amf">>
                              ELSE <<"h264_vaapi", "hevc_vaapi", "vp9_vaapi", "av1_vaapi">>
      [] OTHER             -> <<>>

\* Variant: every candidate encoder is tried, listed or not.
TrialAlways(encoder) == TRUE

\* `if encoder in self.supported_encoders`
TrialDue(encoder) == encoder \in supported_encoders

\* One step of the loops of _detect_gpu_capabilities: skip the pseudo-GPU, go
\* to the next GPU at the end of its list, else test the encoder if it is
\* listed and add its codec when _test_encoder returns True (exit code 0, no
\* error keyword, no exception or timeout).  After the last GPU the
\* constructor returns.
ProbeStep ==
    /\ gpc = "probe"
    /\ IF gi > Len(detected_gpus)
       THEN /\ gpc' = "ready"
            /\ UNCHANGED <<gi, ei, supported_codecs, passed>>
       ELSE LET vendor == detected_gpus[gi]
                tests  == codecs_to_test(vendor)
            IN  IF vendor = "none" \/ ei > Len(tests)
                THEN /\ gi' = gi + 1
                     /\ ei' = 1
                     /\ UNCHANGED <<gpc, supported_codecs, passed>>
                ELSE /\ ei' = ei + 1
                     /\ UNCHANGED <<gpc, gi>>
                     /\ IF TrialDue(tests[ei])
                        THEN \E ok \in BOOLEAN :
                               IF ok
                               THEN /\ supported_codecs' =
                                         [supported_codecs EXCEPT
                                            ![vendor] = @ \cup {CodecPart(tests[ei])}]
                                    /\ passed' = passed \cup {tests[ei]}
                               ELSE UNCHANGED <<supported_codecs, passed>>
                        ELSE UNCHANGED <<supported_codecs, passed>>
    /\ ran' = IF gpc' = "ready" THEN NotRun ELSE ran
    /\ UNCHANGED <<windows, supported_hwaccels, supported_encoders, supported_decoders,
                   detected_gpus, query, answer>>
    /\ UNCHANGED <<engineVars, batchVars, uiVars>>

\* has_gpu_support
has_gpu_support == Len(detected_gpus) > 0 /\ detected_gpus[1] # "none"

\* Variant: any detected GPU answers for the vendor asked.
IsCodecSupportedByAnyGpu(codec, gpu_vendor) ==
    \E i \in 1..Len(detected_gpus) : codec \in supported_codecs[detected_gpus[i]]

\* is_codec_supported_by_gpu: the first GPU of that vendor decides.
is_codec_supported_by_gpu(codec, gpu_vendor) ==
    \E i \in 1..Len(detected_gpus) :
        /\ detected_gpus[i] = gpu_vendor
        /\ codec \in supported_codecs[detected_gpus[i]]

\* Variant: every pair is compatible.
AlwaysCompatible(codec, container) == TRUE

\* The codec names 'vp8', 'vp9', 'av1', 'theora' that are substrings of an
\* encoder name: the codec part of a hardware encoder name, 'vp9' for
\* libvpx-vp9, 'av1' for libaom-av1, none for libx264, libx265 and libvpx.
Mentions(name) ==
    IF name \in HwEncoders THEN {CodecPart(name)} \cap {"vp8", "vp9", "av1", "theora"}
    ELSE IF name = "libvpx-vp9" THEN {"vp9"}
    ELSE IF name = "libaom-av1" THEN {"av1"}
    ELSE {}

\* is_codec_container_compatible, called with an encoder name as codec: webm
\* takes names containing vp8, vp9 or av1; mp4, mov and m4v take names that
\* contain none of vp8, vp9, theora; any other container takes everything.
is_codec_container_compatible(codec, container) ==
    IF container = "webm" THEN Mentions(codec) \cap {"vp8", "vp9", "av1"} # {}
    ELSE IF container \in {"mp4", "mov", "m4v"}
         THEN Mentions(codec) \cap {"vp8", "vp9", "theora"} = {}
    ELSE TRUE

\* Variant: an unknown codec has no software encoder.
SoftwareEncoderNoDefault(codec, container) ==
    IF container = "webm"
    THEN IF codec \in {"h264", "hevc", "h265"} THEN "libvpx-vp9"
         ELSE Get([vp8 |-> "libvpx", vp9 |-> "libvpx-vp9", av1 |-> "libaom-av1"],
                  codec, "")
    ELSE Get([h264 |-> "libx264", hevc |-> "libx265", h265 |-> "libx265",
              vp8 |-> "libvpx", vp9 |-> "libvpx-vp9", av1 |-> "libaom-av1"],
             codec, "")

\* _get_software_encoder
SoftwareEncoder(codec, container) ==
    IF container = "webm"
    THEN IF codec \in {"h264", "hevc", "h265"} THEN "libvpx-vp9"
         ELSE Get([vp8 |-> "libvpx", vp9 |-> "libvpx-vp9", av1 |-> "libaom-av1"],
                  codec, "libvpx-vp9")
    ELSE Get([h264 |-> "libx264", hevc |-> "libx265", h265 |-> "libx265",
              vp8 |-> "libvpx", vp9 |-> "libvpx-vp9", av1 |-> "libaom-av1"],
             codec, "libx264")

\* The encoder_map of each vendor branch of get_best_encoder.
encoder_map(vendor) ==
    CASE vendor = "nvidia" ->
           [h264 |-> "h264_nvenc", hevc |-> "hevc_nvenc", h265 |-> "hevc_nvenc",
            av1 |-> "av1_nvenc"]
      [] vendor = "intel" ->
           [h264 |-> "h264_qsv", hevc |-> "hevc_qsv", h265 |-> "hevc_qsv",
            av1 |-> "av1_qsv", mpeg2 |-> "mpeg2_qsv", vp9 |-> "vp9_qsv"]
      [] vendor = "amd" ->
           IF windows
           THEN [h264 |-> "h264_amf", hevc |-> "hevc_amf", h265 |-> "hevc_amf",
                 av1 |-> "av1_amf"]
           ELSE [h264 |-> "h264_vaapi", hevc |-> "hevc_vaapi", h265 |-> "hevc_vaapi",
                 vp8 |-> "vp8_vaapi", vp9 |-> "vp9_vaapi", av1 |-> "av1_vaapi"]

\* Variant: the CPU mode is taken only when no GPU was detected.
CpuModeWithoutGpuOnly(preferred_gpu) == ~has_gpu_support

\* `if preferred_gpu == 'none' or not self.has_gpu_support()`
CpuMode(preferred_gpu) == preferred_gpu = "none" \/ ~has_gpu_support

\* Variant: 'auto' takes the GPU detected last.
ResolveAutoLast(preferred_gpu) ==
    IF preferred_gpu = "auto" /\ detected_gpus # <<>>
    THEN detected_gpus[Len(detected_gpus)]
    ELSE preferred_gpu

\* `if preferred_gpu == 'auto' and self.detected_gpus: preferred_gpu = self.detected_gpus[0].vendor`
ResolveAuto(preferred_gpu) ==
    IF preferred_gpu = "auto" /\ detected_gpus # <<>>
    THEN detected_gpus[1]
    ELSE preferred_gpu

\* get_best_encoder: the (encoder, warning) it returns.  A warning is kept as
\* the name of its message: "" is the empty string, "unsupported" the message
\* of line 331, "incompatible" that of lines 346/367/397, "unavailable" that of
\* line 406; all three texts are non-empty.
get_best_encoder(codec, preferred_gpu, container) ==
    LET fallback == SoftwareEncoder(codec, container)
        gpu      == ResolveAuto(preferred_gpu)
    IN  IF CpuMode(preferred_gpu)
        THEN [encoder |-> fallback, warning |-> ""]
        ELSE IF ~is_codec_supported_by_gpu(codec, gpu)
        THEN [encoder |-> fallback, warning |-> "unsupported"]
        ELSE IF gpu \in {"nvidia", "intel", "amd"}
        THEN LET encoder == Get(encoder_map(gpu), codec, "")
             IN  IF encoder # "" /\ ~is_codec_container_compatible(encoder, container)
                 THEN [encoder |-> fallback, warning |-> "incompatible"]
                 ELSE IF encoder \in supported_encoders
                 THEN [encoder |-> encoder, warning |-> ""]
                 ELSE [encoder |-> fallback, warning |-> "unavailable"]
        ELSE [encoder |-> fallback, warning |-> "unavailable"]

\* A caller (MainWindow._build_ffmpeg_command) calls get_best_encoder on the
\* finished detector.
GetBestEncoder ==
    /\ gpc = "ready"
    /\ \E codec \in Codecs, preferred_gpu \in Preferred, container \in Containers :
         /\ query' = [codec |-> codec, preferred_gpu |-> preferred_gpu,
                      container |-> container]
         /\ answer' = get_best_encoder(codec, preferred_gpu, container)
    /\ gpc' = "asked"
    /\ UNCHANGED <<windows, supported_hwaccels, supported_encoders, supported_decoders,
                   ran, detected_gpus, supported_codecs, passed, gi, ei>>
    /\ UNCHANGED <<engineVars, batchVars, uiVars>>

\* The caller has used the result; the detector is unchanged.
Return ==
    /\ gpc = "asked"
    /\ gpc' = "ready"
    /\ query' = <<>>
    /\ answer' = <<>>
    /\ UNCHANGED <<windows, supported_hwaccels, supported_encoders, supported_decoders,
                   ran, detected_gpus, supported_codecs, passed, gi, ei>>
    /\ UNCHANGED <<engineVars, batchVars, uiVars>>

\* ------------------------------------------------ GPUDetector._test_encoder
\* What a trial encode writes to stderr is kept as a sequence of messages, each
\* a phrase (in lower case) and the case it is written in.  The phrases are the
\* five error keywords and two texts that contain none of them.
Phrases ==
    {"codec not supported", "no capable devices", "does not support",
     "not supported", "provided device doesn't support",
     "frame= 1 fps=0.0", "is supported"}

Cases == {"lower", "upper", "title"}

Messages == [phrase : Phrases, case : Cases]

\* error_keywords as written in the source.
error_keywords ==
    << [phrase |-> "codec not supported", case |-> "title"],
       [phrase |-> "no capable devices", case |-> "title"],
       [phrase |-> "does not support", case |-> "lower"],
       [phrase |-> "not supported", case |-> "lower"],
       [phrase |-> "provided device doesn't support", case |-> "title"] >>

\* str.lower() of a message.
Lower(m) == [m EXCEPT !.case = "lower"]

\* a is a substring of b, both written in the same case.
PhraseIn(a, b) == a = b \/ (a = "not supported" /\ b = "codec not supported")

\* `keyword in text` for a text that is a sequence of messages.
Contains(text, keyword) ==
    \E i \in 1..Len(text) :
        /\ text[i].case = keyword.case
        /\ PhraseIn(keyword.phrase, text[i].phrase)

\* Variant: the keyword is looked for in stderr as it was written.
KeywordFoundCaseSensitive(stderr, keyword) == Contains(stderr, keyword)

\* `keyword.lower() in stderr_lower`
KeywordFound(stderr, keyword) ==
    Contains([i \in 1..Len(stderr) |-> Lower(stderr[i])], Lower(keyword))

\* All sequences over S of length at most n.
RECURSIVE SeqsUpTo(_, _)
SeqsUpTo(S, n) ==
    IF n = 0 THEN {<<>>}
    ELSE LET prev == SeqsUpTo(S, n - 1)
         IN  prev \cup {Append(t, x) : t \in prev, x \in S}

\* The ways subprocess.run of the trial command can end: it raises
\* TimeoutExpired after 5 s, it raises OSError (the binary cannot be run), or
\* it returns with an exit code and the text of stderr.
TrialRuns ==
    {[launch |-> l, returncode |-> -1, stderr |-> <<>>] : l \in {"timeout", "oserror"}}
    \cup [launch : {"ok"}, returncode : {0, 1}, stderr : SeqsUpTo(Messages, MaxMessages)]

\* _test_encoder: False from the except clause, False for the first keyword
\* found in stderr, else returncode == 0.
test_encoder(run) ==
    IF run.launch # "ok" THEN FALSE
    ELSE IF \E k \in 1..Len(error_keywords) : KeywordFound(run.stderr, error_keywords[k])
         THEN FALSE
    ELSE run.returncode = 0

\* _detect_gpu_capabilities calls _test_encoder for a listed encoder.
TestEncoder ==
    /\ gpc = "trial"
    /\ \E run \in TrialRuns :
         /\ query' = run
         /\ answer' = test_encoder(run)
    /\ gpc' = "tested"
    /\ UNCHANGED <<windows, supported_hwaccels, supported_encoders, supported_decoders,
                   ran, detected_gpus, supported_codecs, passed, gi, ei>>
    /\ UNCHANGED <<engineVars, batchVars, uiVars>>

\* The result is used; the next encoder is tried.
TestReturn ==
    /\ gpc = "tested"
    /\ gpc' = "trial"
    /\ query' = <<>>
    /\ answer' = <<>>
    /\ UNCHANGED <<windows, supported_hwaccels, supported_encoders, supported_decoders,
                   ran, detected_gpus, supported_codecs, passed, gi, ei>>
    /\ UNCHANGED <<engineVars, batchVars, uiVars>>

\* ------------------------------------------- ConversionEngine._parse_error
\* A line of stderr is kept as the words of interest it contains (in lower
\* case), whether it is written with capitals, and its length after strip().
StderrLine(words, upper, chars) == [words |-> words, upper |-> upper, chars |-> chars]

\* An ordinary line ("frame= 10 fps=...") and a line of white space.
Ordinary == StderrLine({}, FALSE, 40)
Blank    == StderrLine({}, FALSE, 0)

\* Lines of interest, as ffmpeg writes them.
MarkedLines ==
    { Blank,
      StderrLine({"cuda"}, TRUE, 30),
      StderrLine({"cuda", "failed"}, FALSE, 50),
      StderrLine({"failed"}, FALSE, 20),
      StderrLine({"error"}, FALSE, 25),
      StderrLine({"error"}, TRUE, 250),
      StderrLine({"qsv", "cannot load"}, FALSE, 60),
      StderrLine({"amf"}, FALSE, 30),
      StderrLine({"vaapi"}, FALSE, 30),
      StderrLine({"no such file or directory"}, TRUE, 45),
      StderrLine({"permission denied"}, TRUE, 40),
      StderrLine({"invalid", "codec"}, FALSE, 35),
      StderrLine({"disk full"}, FALSE, 30),
      StderrLine({"no space"}, TRUE, 35) }

\* stderr_lines when the process has exited: lines of interest followed by
\* ordinary lines.
StderrTexts ==
    {marked \o [i \in 1..n |-> Ordinary] :
        marked \in SeqsUpTo(MarkedLines, MaxMarked), n \in 0..MaxTail}

\* Variant: every line read goes into the message.
ErrorLinesAll(stderr_lines) == stderr_lines

\* error_lines = stderr_lines[-20:] if len(stderr_lines) > 20 else stderr_lines
ErrorLines(stderr_lines) ==
    IF Len(stderr_lines) > 20
    THEN SubSeq(stderr_lines, Len(stderr_lines) - 19, Len(stderr_lines))
    ELSE stderr_lines

\* str.lower() of a line.
LowerLine(l) == [l EXCEPT !.upper = FALSE]

\* `word in line` for a word written in lower case.
WordIn(word, l) == word \in l.words /\ ~l.upper

\* `word in error_output_lower`: the lines are joined and put in lower case; no
\* word of interest contains a line break.
InLowerOutput(word, error_output) ==
    \E i \in 1..Len(error_output) : WordIn(word, LowerLine(error_output[i]))

\* A fixed message, and the message made of a line of stderr.
FixedMessage(kind) == [kind |-> kind, line |-> Blank]
LineMessage(l) == [kind |-> "line", line |-> l]

\* line[:200]
Cut200(l) == [l EXCEPT !.chars = Min(l.chars, 200)]

\* The end of _parse_error: the last line that is not blank and contains
\* 'error' or 'failed' in lower case, cut to 200 characters; else the generic
\* message.
LastErrorLine(error_output) ==
    LET lines == SelectSeq(error_output, LAMBDA l : l.chars > 0)
        hits  == {i \in 1..Len(lines) :
                     \/ WordIn("error", LowerLine(lines[i]))
                     \/ WordIn("failed", LowerLine(lines[i]))}
    IN  IF hits = {} THEN FixedMessage("generic")
        ELSE LineMessage(Cut200(lines[CHOOSE i \in hits : \A k \in hits : k <= i]))

\* _parse_error: the first test that matches gives the message.
parse_error(error_output) ==
    LET has(word) == InLowerOutput(word, error_output)
    IN  IF has("cuda") /\ (has("failed") \/ has("error")) THEN FixedMessage("nvidia")
        ELSE IF has("qsv") /\ has("cannot load") THEN FixedMessage("qsv")
        ELSE IF has("amf") /\ has("failed") THEN FixedMessage("amf")
        ELSE IF has("vaapi") /\ (has("failed") \/ has("error")) THEN FixedMessage("vaapi")
        ELSE IF has("no such file or directory") THEN FixedMessage("file_not_found")
        ELSE IF has("permission denied") THEN FixedMessage("permission_denied")
        ELSE IF has("invalid") /\ has("codec") THEN FixedMessage("invalid_codec")
        ELSE IF has("disk full") \/ has("no space") THEN FixedMessage("disk_full")
        ELSE LastErrorLine(error_output)

\* The else branch of the exit-code check: the message is computed from the
\* last lines of stderr.
FailedExit ==
    /\ gpc = "exited"
    /\ \E stderr_lines \in StderrTexts :
         /\ query' = stderr_lines
         /\ answer' = parse_error(ErrorLines(stderr_lines))
    /\ gpc' = "reported"
    /\ UNCHANGED <<windows, supported_hwaccels, supported_encoders, supported_decoders,
                   ran, detected_gpus, supported_codecs, passed, gi, ei>>
    /\ UNCHANGED <<engineVars, batchVars, uiVars>>

\* The message has been emitted; another conversion fails.
NextFailure ==
    /\ gpc = "reported"
    /\ gpc' = "exited"
    /\ query' = <<>>
    /\ answer' = <<>>
    /\ UNCHANGED <<windows, supported_hwaccels, supported_encoders, supported_decoders,
                   ran, detected_gpus, supported_codecs, passed, gi, ei>>
    /\ UNCHANGED <<engineVars, batchVars, uiVars>>

\* ------------------------------- _monitor_progress: the remaining time
\* The values the estimate is computed from, for a line that gives a progress
\* event (time= matched and total_seconds is not 0): the seconds elapsed since
\* _start_time, current_seconds, total_seconds and the pass.
EtaInputs ==
    {i \in [elapsed : 0..MaxElapsed, current : 0..MaxElapsed, total : 1..MaxElapsed,
            two : BOOLEAN, pass : 1..2] : i.pass = 2 => i.two}

\* Variant: the difference is used as it is.
Unclamped(x) == x

\* max(0, x)
AtLeastZero(x) == IF x < 0 THEN 0 ELSE x

\* The estimate of lines 113-127.  With current_seconds > 0 it is
\* remaining_time = max(0, estimated_total_time - elapsed_time), where
\* estimated_pass_time = (elapsed_time / current_seconds) * total_seconds is
\* counted twice in pass 1 of a two-pass job; it is kept exactly, as
\* remaining_time * current_seconds (`times_current`).  With current_seconds = 0
\* it is the text "Рассчитывается..." (`placeholder`).
RemainingTime(i) ==
    IF i.current > 0
    THEN LET estimated_pass_time_c  == i.elapsed * i.total
             estimated_total_time_c == IF i.two /\ i.pass = 1
                                       THEN estimated_pass_time_c * 2
                                       ELSE estimated_pass_time_c
         IN  [placeholder |-> FALSE,
              times_current |-> AtLeastZero(estimated_total_time_c - i.elapsed * i.current)]
    ELSE [placeholder |-> TRUE, times_current |-> 0]

\* A line with time= is read and the estimate of its progress event computed.
EstimateRemaining ==
    /\ gpc = "timing"
    /\ \E i \in EtaInputs :
         /\ query' = i
         /\ answer' = RemainingTime(i)
    /\ gpc' = "estimated"
    /\ UNCHANGED <<windows, supported_hwaccels, supported_encoders, supported_decoders,
                   ran, detected_gpus, supported_codecs, passed, gi, ei>>
    /\ UNCHANGED <<engineVars, batchVars, uiVars>>

\* The event is emitted; the next line is read.
EstimateEmitted ==
    /\ gpc = "estimated"
    /\ gpc' = "timing"
    /\ query' = <<>>
    /\ answer' = <<>>
    /\ UNCHANGED <<windows, supported_hwaccels, supported_encoders, supported_decoders,
                   ran, detected_gpus, supported_codecs, passed, gi, ei>>
    /\ UNCHANGED <<engineVars, batchVars, uiVars>>

\* ------------------------------ CodecSelector.get_best_codec_for_container
\* _initialize_codec_database: the profiles in the order of the dict, with the
\* fields get_best_codec_for_container reads.
codec_database ==
    << [name |-> "h264", ffmpeg_name |-> "libx264",
        compression_efficiency |-> 6, encoding_speed |-> 9, quality_per_bitrate |-> 7,
        browser_support |-> 10, hw_acceleration |-> 10,
        compatible_containers |-> {"mp4", "mkv", "mov", "avi", "flv", "ts", "m4v"},
        optimal_containers |-> {"mp4", "mkv"}],
       [name |-> "h265", ffmpeg_name |-> "libx265",
        compression_efficiency |-> 9, encoding_speed |-> 5, quality_per_bitrate |-> 9,
        browser_support |-> 6, hw_acceleration |-> 9,
        compatible_containers |-> {"mp4", "mkv", "mov", "ts", "m4v"},
        optimal_containers |-> {"mp4", "mkv"}],
       [name |-> "vp8", ffmpeg_name |-> "libvpx",
        compression_efficiency |-> 5, encoding_speed |-> 7, quality_per_bitrate |-> 6,
        browser_support |-> 9, hw_acceleration |-> 4,
        compatible_containers |-> {"webm", "mkv"},
        optimal_containers |-> {"webm"}],
       [name |-> "vp9", ffmpeg_name |-> "libvpx-vp9",
        compression_efficiency |-> 8, encoding_speed |-> 4, quality_per_bitrate |-> 8,
        browser_support |-> 9, hw_acceleration |-> 7,
        compatible_containers |-> {"webm", "mkv"},
        optimal_containers |-> {"webm"}],
       [name |-> "av1", ffmpeg_name |-> "libaom-av1",
        compression_efficiency |-> 10, encoding_speed |-> 2, quality_per_bitrate |-> 10,
        browser_support |-> 8, hw_acceleration |-> 6,
        compatible_containers |-> {"mp4", "webm", "mkv"},
        optimal_containers |-> {"mp4", "webm", "mkv"}] >>

\* CodecPurpose
Purposes == {"universal", "quality", "size", "speed", "web", "archive"}

\* The containers get_best_codec_for_container is asked about: those of the
\* format list, and 'ogg', which no profile names.
SelectorContainers == Containers \cup {"avi", "ogg"}

\* The codec names a detected GPU can support, and the names of the profiles.
GpuCodecNames == {"h264", "hevc", "h265", "vp8", "vp9", "av1"}

\* The score of a profile for a purpose, before the GPU bonus (lines 217-256).
PurposeScore(codec, purpose, has_gpu, gpu_supported_codecs) ==
    CASE purpose = "universal" -> codec.browser_support * 2 + codec.hw_acceleration
      [] purpose = "speed"     -> codec.encoding_speed * 2
                                  + (IF has_gpu /\ codec.name \in gpu_supported_codecs
                                     THEN 3 ELSE 0)
      [] purpose = "quality"   -> codec.quality_per_bitrate * 2 + codec.compression_efficiency
      [] purpose = "size"      -> codec.compression_efficiency * 3
      [] purpose = "web"       -> codec.browser_support * 3 + codec.compression_efficiency
      [] purpose = "archive"   -> codec.quality_per_bitrate + codec.compression_efficiency * 2
      [] OTHER                 -> codec.browser_support

\* Variant: no bonus.
WithoutGpuBonus(codec, score, has_gpu, gpu_supported_codecs) == score

\* Lines 259-263: +5 for a codec the GPU supports.
WithGpuBonus(codec, score, has_gpu, gpu_supported_codecs) ==
    IF has_gpu /\ gpu_supported_codecs # {} /\ codec.name \in gpu_supported_codecs
    THEN score + 5
    ELSE score

\* The list `scores` after lines 217-263, for the list `compatible`.
Scores(compatible, purpose, has_gpu, gpu_supported_codecs) ==
    [i \in 1..Len(compatible) |->
        [codec |-> compatible[i],
         score |-> WithGpuBonus(compatible[i],
                                PurposeScore(compatible[i], purpose, has_gpu,
                                             gpu_supported_codecs),
                                has_gpu, gpu_supported_codecs)]]

\* Variant: an entry goes before the entries of the same score.
GoesBeforeEqual(x, y) == x.score >= y.score

\* In a stable sort by descending score, a later entry x goes before an
\* earlier entry y only when its score is greater.
GoesBefore(x, y) == x.score > y.score

\* x inserted into the sorted list s, after the entries it does not go before.
RECURSIVE Insert(_, _)
Insert(x, s) ==
    IF s = <<>> THEN <<x>>
    ELSE IF GoesBefore(x, Head(s)) THEN <<x>> \o s
    ELSE <<Head(s)>> \o Insert(x, Tail(s))

\* scores.sort(key=lambda x: x[1], reverse=True): the first n entries sorted.
RECURSIVE SortedByScore(_, _)
SortedByScore(s, n) ==
    IF n = 0 THEN <<>> ELSE Insert(s[n], SortedByScore(s, n - 1))

\* The parts of the reason (lines 270-289): the purpose, "gpu" for
\* GPU acceleration, "optimal" for a container the codec is optimal for.
ReasonParts(best_codec, container, purpose, has_gpu, gpu_supported_codecs) ==
    <<purpose>>
    \o (IF has_gpu /\ best_codec.name \in gpu_supported_codecs THEN <<"gpu">> ELSE <<>>)
    \o (IF container \in best_codec.optimal_containers THEN <<"optimal">> ELSE <<>>)

\* get_best_codec_for_container: the profile and the reason it returns.  The
\* reason of the fallback (line 211) is kept as <<"no_compatible">>.
get_best_codec_for_container(container, purpose, has_gpu, gpu_supported_codecs) ==
    LET compatible == SelectSeq(codec_database,
                                LAMBDA codec : container \in codec.compatible_containers)
    IN  IF compatible = <<>>
        THEN [codec |-> codec_database[1], reason |-> <<"no_compatible">>]
        ELSE LET scores == Scores(compatible, purpose, has_gpu, gpu_supported_codecs)
                 best_codec == SortedByScore(scores, Len(scores))[1].codec
             IN  [codec |-> best_codec,
                  reason |-> ReasonParts(best_codec, container, purpose, has_gpu,
                                         gpu_supported_codecs)]

\* A caller asks for the best codec of a container.
GetBestCodec ==
    /\ gpc = "select"
    /\ \E container \in SelectorContainers, purpose \in Purposes, has_gpu \in BOOLEAN,
          gpu_supported_codecs \in SUBSET GpuCodecNames :
         /\ query' = [container |-> container, purpose |-> purpose, has_gpu |-> has_gpu,
                      gpu_supported_codecs |-> gpu_supported_codecs]
         /\ answer' = get_best_codec_for_container(container, purpose, has_gpu,
                                                   gpu_supported_codecs)
    /\ gpc' = "selected"
    /\ UNCHANGED <<windows, supported_hwaccels, supported_encoders, supported_decoders,
                   ran, detected_gpus, supported_codecs, passed, gi, ei>>
    /\ UNCHANGED <<engineVars, batchVars, uiVars>>

\* The caller has used the result.
BestCodecReturn ==
    /\ gpc = "selected"
    /\ gpc' = "select"
    /\ query' = <<>>
    /\ answer' = <<>>
    /\ UNCHANGED <<windows, supported_hwaccels, supported_encoders, supported_decoders,
                   ran, detected_gpus, supported_codecs, passed, gi, ei>>
    /\ UNCHANGED <<engineVars, batchVars, uiVars>>

\* --------------------------------------- MainWindow._build_ffmpeg_command
\* What VideoOptions.get_video_codec returns: "auto", "copy", the encoders
\* _get_codec_name knows, and one it does not know (the others of the combo
\* box are treated like this one everywhere).
VideoCodecs ==
    {"auto", "copy", "libx264", "libx265", "libvpx-vp9", "libaom-av1", "libsvtav1",
     "libtheora"}

\* _get_codec_name
GetCodecName(ffmpeg_codec) ==
    CASE ffmpeg_codec = "libx264"    -> "h264"
      [] ffmpeg_codec = "libx265"    -> "hevc"
      [] ffmpeg_codec = "libvpx"     -> "vp8"
      [] ffmpeg_codec = "libvpx-vp9" -> "vp9"
      [] ffmpeg_codec = "libaom-av1" -> "av1"
      [] ffmpeg_codec = "libsvtav1"  -> "svt-av1"
      [] OTHER                       -> "h264"

\* _auto_select_codec: the ffmpeg_name of the best codec for the container and
\* the universal purpose; a GPU counts when a vendor was selected, with the
\* codecs of the first detected GPU of that vendor.
AutoSelectCodec(container, gpu_vendor) ==
    LET has_gpu == gpu_vendor \notin {"none", "auto"}
        gpu_supported_codecs ==
            IF has_gpu /\ \E i \in 1..Len(detected_gpus) : detected_gpus[i] = gpu_vendor
            THEN supported_codecs[gpu_vendor]
            ELSE {}
    IN  get_best_codec_for_container(container, "universal", has_gpu,
                                     gpu_supported_codecs).codec.ffmpeg_name

\* The argument of -c:v in _build_ffmpeg_command (lines 1066-1098, 1176-1177):
\* the codec name of the selection goes through get_best_encoder with the
\* output format, or through _get_software_encoder when no GPU is selected.
SinglePassEncoder(selected, selected_gpu, output_format) ==
    LET video_codec == IF selected = "auto"
                       THEN AutoSelectCodec(output_format, selected_gpu)
                       ELSE selected
    IN  IF video_codec = "copy" THEN "copy"
        ELSE IF selected_gpu # "none"
        THEN get_best_encoder(GetCodecName(video_codec), selected_gpu, output_format).encoder
        ELSE SoftwareEncoder(GetCodecName(video_codec), output_format)

\* The argument of -c:v in _build_two_pass_commands (lines 1335-1342), for a
\* selection other than "copy": the selection itself goes to get_best_encoder,
\* with the default container 'mp4'; the automatic choice is used as it is.
TwoPassEncoder(selected, selected_gpu, output_format) ==
    IF selected # "auto"
    THEN get_best_encoder(selected, selected_gpu, "mp4").encoder
    ELSE AutoSelectCodec(output_format, selected_gpu)

\* The settings of the widgets when a command is built.
BuildSettings ==
    [video_codec : VideoCodecs, selected_gpu : Preferred, output_format : Containers,
     two_pass : BOOLEAN]

\* A call of a builder from a builder: one more frame, or RecursionError when
\* the limit is reached.  `callee` is the position of the called builder.
CallBuilder(callee) ==
    IF query.frames < RecursionLimit
    THEN /\ gpc' = callee
         /\ query' = [query EXCEPT !.frames = @ + 1]
         /\ UNCHANGED answer
    ELSE /\ gpc' = "raised"
         /\ answer' = "RecursionError"
         /\ UNCHANGED query

\* _start_conversion / _start_batch_conversion call _build_ffmpeg_command with
\* the settings of the widgets.
CallBuildFfmpegCommand ==
    /\ gpc = "ready"
    /\ \E settings \in BuildSettings :
         query' = [settings |-> settings, frames |-> 1]
    /\ answer' = <<>>
    /\ gpc' = "build"
    /\ UNCHANGED <<windows, supported_hwaccels, supported_encoders, supported_decoders,
                   ran, detected_gpus, supported_codecs, passed, gi, ei>>
    /\ UNCHANGED <<engineVars, batchVars, uiVars>>

\* _build_ffmpeg_command: the single-pass command is built; with two-pass
\* enabled it is dropped and _build_two_pass_commands is called (lines
\* 1259-1263), whose result is returned; else (cmd, None, None) is returned.
\* A result goes up through the callers unchanged.
BuildFfmpegCommand ==
    /\ gpc = "build"
    /\ IF query.settings.two_pass
       THEN CallBuilder("two_pass")
       ELSE /\ answer' = [encoder |-> SinglePassEncoder(query.settings.video_codec,
                                                       query.settings.selected_gpu,
                                                       query.settings.output_format),
                          pass2_command |-> "None", passlogfile |-> "None"]
            /\ gpc' = "built"
            /\ UNCHANGED query
    /\ UNCHANGED <<windows, supported_hwaccels, supported_encoders, supported_decoders,
                   ran, detected_gpus, supported_codecs, passed, gi, ei>>
    /\ UNCHANGED <<engineVars, batchVars, uiVars>>

\* _build_two_pass_commands: with "copy" it calls _build_ffmpeg_command for a
\* single-pass command (lines 1329-1333); else it returns the commands of
\* pass 1 and pass 2 and the passlogfile.
BuildTwoPassOrFallBack ==
    /\ gpc = "two_pass"
    /\ IF query.settings.video_codec = "copy"
       THEN CallBuilder("build")
       ELSE /\ answer' = [encoder |-> TwoPassEncoder(query.settings.video_codec,
                                                    query.settings.selected_gpu,
                                                    query.settings.output_format),
                          pass2_command |-> "pass2", passlogfile |-> "ffmpeg2pass"]
            /\ gpc' = "built"
            /\ UNCHANGED query
    /\ UNCHANGED <<windows, supported_hwaccels, supported_encoders, supported_decoders,
                   ran, detected_gpus, supported_codecs, passed, gi, ei>>
    /\ UNCHANGED <<engineVars, batchVars, uiVars>>

\* The caller has the commands, or its `except Exception` has the error.
BuildReturn ==
    /\ gpc \in {"built", "raised"}
    /\ gpc' = "ready"
    /\ query' = <<>>
    /\ answer' = <<>>
    /\ UNCHANGED <<windows, supported_hwaccels, supported_encoders, supported_decoders,
                   ran, detected_gpus, supported_codecs, passed, gi, ei>>
    /\ UNCHANGED <<engineVars, batchVars, uiVars>>

\* ------------------------------------------ GPUDetector.get_encoder_preset
\* The presets of the preset selector, an unknown name, the empty string and
\* "None" for Python's None (no preset given / no preset returned).
UserPresets ==
    {"ultrafast", "superfast", "veryfast", "faster", "fast", "medium", "slow",
     "slower", "veryslow", "placebo", "", "None"}

\* An encoder name as it is passed in: one of the names the detector returns,
\* written in lower or in upper case.
EncoderArgs == [name : HwEncoders \cup SoftwareEncoders, upper : BOOLEAN]

\* `x in encoder_lower`: encoder.lower() is the name whatever its case.
InLower(x, encoder) == encoder.name \in HwEncoders /\ HasPart(x, encoder.name)

\* `if user_preset` (None and "" are false)
Given(user_preset) == user_preset \notin {"", "None"}

\* Variant: a preset outside the map has no NVENC preset.
NvencPresetNoDefault(user_preset) ==
    IF Given(user_preset)
    THEN Get([ultrafast |-> "p1", superfast |-> "p2", veryfast |-> "p3",
              faster |-> "p3", fast |-> "p4", medium |-> "p4", slow |-> "p5",
              slower |-> "p6", veryslow |-> "p7"], user_preset, "None")
    ELSE "p4"

\* The nvenc branch: preset_map.get(user_preset, 'p4'), 'p4' without a preset.
NvencPreset(user_preset) ==
    IF Given(user_preset)
    THEN Get([ultrafast |-> "p1", superfast |-> "p2", veryfast |-> "p3",
              faster |-> "p3", fast |-> "p4", medium |-> "p4", slow |-> "p5",
              slower |-> "p6", veryslow |-> "p7"], user_preset, "p4")
    ELSE "p4"

\* The qsv branch.
QsvPreset(user_preset) ==
    IF /\ Given(user_preset)
       /\ user_preset \in {"veryslow", "slower", "slow", "medium", "fast",
                           "faster", "veryfast"}
    THEN user_preset
    ELSE "medium"

\* The amf branch.
AmfPreset(user_preset) ==
    IF Given(user_preset) /\ user_preset \in {"veryslow", "slower", "slow"}
    THEN "quality"
    ELSE IF /\ Given(user_preset)
            /\ user_preset \in {"veryfast", "faster", "fast", "ultrafast", "superfast"}
    THEN "speed"
    ELSE "balanced"

\* get_encoder_preset
get_encoder_preset(encoder, user_preset) ==
    IF InLower("nvenc", encoder) THEN NvencPreset(user_preset)
    ELSE IF InLower("qsv", encoder) THEN QsvPreset(user_preset)
    ELSE IF InLower("amf", encoder) THEN AmfPreset(user_preset)
    ELSE IF InLower("vaapi", encoder) THEN "None"
    ELSE IF Given(user_preset) THEN user_preset ELSE "medium"

\* A caller (MainWindow._build_ffmpeg_command) asks for the preset of the
\* encoder it has chosen.
GetEncoderPreset ==
    /\ gpc = "preset"
    /\ \E encoder \in EncoderArgs, user_preset \in UserPresets :
         /\ query' = [encoder |-> encoder, user_preset |-> user_preset]
         /\ answer' = get_encoder_preset(encoder, user_preset)
    /\ gpc' = "preset_asked"
    /\ UNCHANGED <<windows, supported_hwaccels, supported_encoders, supported_decoders,
                   ran, detected_gpus, supported_codecs, passed, gi, ei>>
    /\ UNCHANGED <<engineVars, batchVars, uiVars>>

\* The caller has used the preset.
PresetReturn ==
    /\ gpc = "preset_asked"
    /\ gpc' = "preset"
    /\ query' = <<>>
    /\ answer' = <<>>
    /\ UNCHANGED <<windows, supported_hwaccels, supported_encoders, supported_decoders,
                   ran, detected_gpus, supported_codecs, passed, gi, ei>>
    /\ UNCHANGED <<engineVars, batchVars, uiVars>>

\* ------------------------------- MainWindow._build_two_pass_commands
\* Output files: a directory and a file name without its extension.
OutputFiles == [dir : {"out", "export"}, stem : {"clip", "film"}]

\* Path(output_file).stem
Stem(output_file) == output_file.stem

\* Path(temp_dir) / f"ffmpeg2pass_{output_basename}_{timestamp}": the file name
\* is kept as its three parts (the timestamp is all digits, so the last '_'
\* separates it and two names are equal exactly when their parts are).
Passlogfile(output_file, timestamp) ==
    <<"ffmpeg2pass", Stem(output_file), timestamp>>

\* No job was built.
UiIdle == clock = 0 /\ built = <<>>

\* _build_two_pass_commands for one job, of a single conversion or of the
\* loop of _start_batch_conversion: the clock is read once.
BuildTwoPassCommands ==
    /\ Len(built) < MaxBuilds
    /\ \E output_file \in OutputFiles :
         built' = Append(built, [output_file |-> output_file,
                                 passlogfile |-> Passlogfile(output_file, clock)])
    /\ UNCHANGED clock
    /\ UNCHANGED <<engineVars, batchVars, gpuVars>>

\* A millisecond passes.
Tick ==
    /\ clock < MaxClock
    /\ clock' = clock + 1
    /\ UNCHANGED built
    /\ UNCHANGED <<engineVars, batchVars, gpuVars>>

\* A single conversion (MainWindow._start_conversion): the engine is built and
\* its thread started; the GUI thread may call stop() at any time.
Init ==
    /\ \E two \in BOOLEAN : EngineInit(two, "start")
    /\ BatchIdle("off")
    /\ GpuOff
    /\ UiIdle

\* ---------------------------------------------- BatchProcessor.process_all
AliveProcs == Cardinality({p \in Procs : Alive(p)})

\* Variant: on_error is not connected, only conversion_finished ends the wait.
DeliveredFinishedOnly == IF nFinished > 0 THEN "finished" ELSE "none"

\* The engine's terminal event as the slots on_finished / on_error saw it.
\* Every message the engine emits is non-empty (a fixed prefix, a constant of
\* _parse_error or a stripped non-empty line), so `if conversion_error` is true
\* exactly when on_error ran.
Delivered == IF nError > 0 THEN "error" ELSE IF nFinished > 0 THEN "finished" ELSE "none"

\* process_all entry: self._should_stop = False.
BatchEnter ==
    /\ bpc = "entry"
    /\ bstop' = FALSE
    /\ bpc' = "loop"
    /\ UNCHANGED <<index, conversion_finished, conversion_error, status, nStarted,
                   allDone, orphans, engineResult, engineStopped, stopAt, lastSignal>>
    /\ UNCHANGED engineVars
    /\ UNCHANGED <<gpuVars, uiVars>>

\* Top of `for index, job in enumerate(self.jobs)`: leave when the queue is
\* exhausted or the stop flag is set, else mark the job and emit job_started.
BatchLoop ==
    /\ bpc = "loop"
    /\ IF index > MaxJobs \/ bstop
       THEN /\ bpc' = "after"
            /\ UNCHANGED <<status, nStarted, lastSignal>>
       ELSE /\ bpc' = "setup"
            /\ status' = [status EXCEPT ![index] = "processing"]
            /\ nStarted' = nStarted + 1
            /\ lastSignal' = Signal("job_started", index)
    /\ UNCHANGED <<index, bstop, conversion_finished, conversion_error,
                   allDone, orphans, engineResult, engineStopped, stopAt>>
    /\ UNCHANGED engineVars
    /\ UNCHANGED <<gpuVars, uiVars>>

\* The try block up to engine_thread.start(): a new ConversionEngine, the local
\* flags reset, the signals connected, the thread started.  An exception on the
\* way marks the job failed and the loop goes on.
BatchSetup ==
    /\ bpc = "setup"
    /\ \E ok \in BOOLEAN :
         IF ok
         THEN /\ pc' = [t \in {"w", "c"} |-> IF t = "w" THEN "start" ELSE "idle"]
              /\ process' = 0
              /\ proc' = [p \in Procs |-> "none"]
              /\ closed' = [p \in Procs |-> FALSE]
              /\ should_stop' = FALSE
              /\ current_pass' = 1
              /\ logFile' = FALSE
              /\ total' = -1
              /\ lastProg' = -1
              /\ nFinished' = 0
              /\ nError' = 0
              /\ cause' = "none"
              /\ lastEvent' = NoEvent
              /\ current_seconds' = -1
              /\ sent' = [p \in Procs |-> "none"]
              /\ orphans' = orphans + AliveProcs
              /\ conversion_finished' = FALSE
              /\ conversion_error' = FALSE
              /\ bpc' = "waiting"
              /\ UNCHANGED <<index, status, engineResult, lastSignal>>
         ELSE /\ status' = [status EXCEPT ![index] = "failed"]
              /\ engineResult' = [engineResult EXCEPT ![index] = "setup"]
              /\ lastSignal' = Signal("job_failed", index)
              /\ index' = index + 1
              /\ bpc' = "loop"
              /\ UNCHANGED <<pc, process, proc, closed, should_stop, current_pass,
                             logFile, total, lastProg, nFinished, nError, cause,
                             orphans, conversion_finished, conversion_error, current_seconds, sent, lastEvent>>
    /\ UNCHANGED <<twoPass, bstop, nStarted, allDone, engineStopped, stopAt>>
    /\ UNCHANGED <<gpuVars, uiVars>>

\* The engine of the current job has emitted progress_updated.
EngineProgressed == lastEvent.current_pass # 0

\* Variant: on_progress reads the index of the job before.
ProgressIndexStale == IF index > 1 THEN index - 1 ELSE index

\* The `index` on_progress reads when it runs: the loop variable of
\* process_all at that time.
ProgressIndex == index

\* on_progress, run by processEvents in the wait loop for a progress_updated of
\* the engine: self.job_progress.emit(index, progress_data).
BatchProgress ==
    /\ bpc = "waiting"
    /\ EngineProgressed
    /\ lastSignal' = Signal("job_progress", ProgressIndex)
    /\ UNCHANGED <<bpc, index, bstop, conversion_finished, conversion_error, status,
                   nStarted, allDone, orphans, engineResult, engineStopped, stopAt>>
    /\ UNCHANGED engineVars
    /\ UNCHANGED <<gpuVars, uiVars>>

\* `while not conversion_finished and not self._should_stop`: processEvents
\* runs the slots for what the engine emitted, the progress events before the
\* terminal one; the loop is left when a terminal event was delivered or the
\* stop flag is set.
BatchWait ==
    /\ bpc = "waiting"
    /\ Delivered # "none" \/ bstop
    /\ conversion_finished' = (Delivered # "none")
    /\ conversion_error' = (Delivered = "error")
    /\ lastSignal' = IF Delivered # "none" /\ EngineProgressed
                     THEN Signal("job_progress", ProgressIndex)
                     ELSE lastSignal
    /\ bpc' = "afterwait"
    /\ UNCHANGED <<index, bstop, status, nStarted, allDone, orphans,
                   engineResult, engineStopped, stopAt>>
    /\ UNCHANGED engineVars
    /\ UNCHANGED <<gpuVars, uiVars>>

\* Variant: the engine is not told to stop.
EngineStopNever == FALSE

\* `if self._should_stop and engine`
EngineStopDue == bstop

\* `if self._should_stop and engine: engine.stop()`, run in the batch thread.
BatchEngineStop ==
    /\ bpc = "afterwait"
    /\ IF EngineStopDue
       THEN /\ should_stop' = TRUE
            /\ pc' = [pc EXCEPT !["c"] = "t_term"]
            /\ engineStopped' = [engineStopped EXCEPT ![index] = TRUE]
            /\ bpc' = "stopping"
       ELSE /\ bpc' = "join"
            /\ UNCHANGED <<should_stop, pc, engineStopped>>
    /\ NoTerminal
    /\ UNCHANGED <<twoPass, process, proc, closed, current_pass, logFile, total, lastProg, current_seconds, sent>>
    /\ UNCHANGED <<index, bstop, conversion_finished, conversion_error, status,
                   nStarted, allDone, orphans, engineResult, stopAt, lastSignal>>
    /\ UNCHANGED <<gpuVars, uiVars>>

\* The worker cannot return by itself: it waits for a process that has not
\* exited, or for output of a running process.
WorkerBlocked ==
    \/ pc["w"] = "wait" /\ ~Exited(process)
    \/ pc["w"] = "read" /\ ~closed[process] /\ proc[process] = "running"

\* engine_thread.quit(); wait(5000) returns once start() has returned; when it
\* times out the thread is terminated.
BatchJoin ==
    /\ bpc = "join" \/ (bpc = "stopping" /\ pc["c"] = "ret")
    /\ \/ /\ pc["w"] = "done"
          /\ UNCHANGED pc
       \/ /\ WorkerBlocked
          /\ pc' = [pc EXCEPT !["w"] = "killed"]
    /\ bpc' = "check"
    /\ NoTerminal
    /\ UNCHANGED <<twoPass, process, proc, closed, should_stop, current_pass,
                   logFile, total, lastProg, current_seconds, sent>>
    /\ UNCHANGED <<index, bstop, conversion_finished, conversion_error, status,
                   nStarted, allDone, orphans, engineResult, engineStopped, stopAt,
                   lastSignal>>
    /\ UNCHANGED <<gpuVars, uiVars>>

\* Variant: the stored error is ignored.
StatusAlwaysCompleted(err) == "completed"

\* `if conversion_error: job_failed.emit else: job_completed.emit`
TerminalSignal(err) == IF err THEN "job_failed" ELSE "job_completed"

\* `if conversion_error: failed else: completed`
StatusFor(err) == IF err THEN "failed" ELSE "completed"

\* `if self._should_stop: break`, else record the job's result and go on.
BatchCheck ==
    /\ bpc = "check"
    /\ IF bstop
       THEN /\ bpc' = "after"
            /\ UNCHANGED <<status, index, engineResult, lastSignal>>
       ELSE /\ status' = [status EXCEPT ![index] = StatusFor(conversion_error)]
            /\ lastSignal' = Signal(TerminalSignal(conversion_error), index)
            /\ engineResult' = [engineResult EXCEPT ![index] = Delivered]
            /\ index' = index + 1
            /\ bpc' = "loop"
    /\ UNCHANGED <<bstop, conversion_finished, conversion_error, nStarted, allDone,
                   orphans, engineStopped, stopAt>>
    /\ UNCHANGED engineVars
    /\ UNCHANGED <<gpuVars, uiVars>>

\* After the loop: `if not self._should_stop: self.all_jobs_completed.emit()`.
BatchAfter ==
    /\ bpc = "after"
    /\ allDone' = IF bstop THEN allDone ELSE allDone + 1
    /\ lastSignal' = IF bstop THEN lastSignal ELSE Signal("all_jobs_completed", 0)
    /\ bpc' = "done"
    /\ UNCHANGED <<index, bstop, conversion_finished, conversion_error, status,
                   nStarted, orphans, engineResult, engineStopped, stopAt>>
    /\ UNCHANGED engineVars
    /\ UNCHANGED <<gpuVars, uiVars>>

\* process_all has returned after a stop request while its engine had progress
\* events under way: if the batch thread's event loop runs, on_progress emits
\* job_progress with the index the loop was left with.
BatchLateProgress ==
    /\ bpc = "done"
    /\ bstop
    /\ index \in Jobs
    /\ status[index] = "processing"
    /\ EngineProgressed
    /\ lastSignal' = Signal("job_progress", ProgressIndex)
    /\ UNCHANGED <<bpc, index, bstop, conversion_finished, conversion_error, status,
                   nStarted, allDone, orphans, engineResult, engineStopped, stopAt>>
    /\ UNCHANGED engineVars
    /\ UNCHANGED <<gpuVars, uiVars>>

\* BatchProcessor.stop(), called from the GUI thread (_stop_conversion).
\* stopAt remembers the job that was running (started, not yet recorded).
BatchStop ==
    /\ bpc \notin {"off", "done"}
    /\ ~bstop
    /\ bstop' = TRUE
    /\ stopAt' = IF bpc = "waiting" THEN index ELSE stopAt
    /\ UNCHANGED <<bpc, index, conversion_finished, conversion_error, status,
                   nStarted, allDone, orphans, engineResult, engineStopped, lastSignal>>
    /\ UNCHANGED engineVars
    /\ UNCHANGED <<gpuVars, uiVars>>

\* A process left behind by an earlier job's engine exits.
OrphanExit ==
    /\ orphans > 0
    /\ orphans' = orphans - 1
    /\ UNCHANGED <<bpc, index, bstop, conversion_finished, conversion_error, status,
                   nStarted, allDone, engineResult, engineStopped, stopAt, lastSignal>>
    /\ UNCHANGED engineVars
    /\ UNCHANGED <<gpuVars, uiVars>>

EngineNext ==
    \/ Start
    \/ ReadLine
    \/ ReadEOF
    \/ ReadRaises
    \/ ExitCheck
    \/ StartPass2
    \/ \E t \in {"w", "c"} : TermSignal(t)
    \/ \E t \in {"w", "c"} : TermWait(t)
    \/ \E t \in {"w", "c"} : TermKill(t)
    \/ \E t \in {"w", "c"} : TermClose(t)
    \/ \E t \in {"w", "c"} : Cleanup(t)
    \/ ProcCloseStderr
    \/ ProcExit
    \/ ProcWriteLog

Next ==
    \/ EngineNext
    \/ GuiStop

Spec == Init /\ [][Next]_vars

\* The read loop on its own: an engine that has just spawned the process of
\* pass `current_pass` and reads its output, with no stop request.  The lines
\* carry up to MaxTotal seconds.
InitProgress ==
    /\ \E two \in BOOLEAN, pass \in 1..2 :
         /\ pass = 2 => two
         /\ twoPass = two
         /\ current_pass = pass
         /\ process = pass
         /\ proc = [p \in Procs |-> IF p = pass THEN "running"
                                    ELSE IF p < pass THEN "exit0" ELSE "none"]
    /\ pc = [t \in {"w", "c"} |-> IF t = "w" THEN "read" ELSE "idle"]
    /\ closed = [p \in Procs |-> FALSE]
    /\ should_stop = FALSE
    /\ logFile = FALSE
    /\ total = -1
    /\ lastProg = -1
    /\ nFinished = 0
    /\ nError = 0
    /\ cause = "none"
    /\ lastEvent = NoEvent
    /\ current_seconds = -1
    /\ sent = [p \in Procs |-> "none"]
    /\ BatchIdle("off")
    /\ GpuOff
    /\ UiIdle

ReadLong == ReadLineFrom(0..MaxTotal)

NextProgress == ReadLong

SpecProgress == InitProgress /\ [][NextProgress]_vars

\* A batch conversion (MainWindow._start_batch_conversion): every job is built
\* from the same settings, the batch thread is started on process_all.
InitBatch ==
    /\ \E two \in BOOLEAN : EngineInit(two, "idle")
    /\ BatchIdle("entry")
    /\ GpuOff
    /\ UiIdle

NextBatch ==
    \/ EngineNext
    \/ BatchEnter
    \/ BatchLoop
    \/ BatchSetup
    \/ BatchProgress
    \/ BatchWait
    \/ BatchEngineStop
    \/ BatchJoin
    \/ BatchCheck
    \/ BatchAfter
    \/ BatchLateProgress
    \/ BatchStop
    \/ OrphanExit

SpecBatch == InitBatch /\ [][NextBatch]_vars

\* A batch conversion in which Stop is never pressed.  The threads keep
\* running (each step of the worker and of process_all that can be taken is
\* taken), a stream that has ended is found ended, and every process exits.
NextBatchRun ==
    \/ Start
    \/ ReadLine
    \/ ReadEOF
    \/ ReadRaises
    \/ ExitCheck
    \/ StartPass2
    \/ ProcCloseStderr
    \/ ProcExit
    \/ ProcWriteLog
    \/ BatchEnter
    \/ BatchLoop
    \/ BatchSetup
    \/ BatchProgress
    \/ BatchWait
    \/ BatchEngineStop
    \/ BatchJoin
    \/ BatchCheck
    \/ BatchAfter
    \/ OrphanExit

FairBatchRun ==
    /\ WF_vars(Start)
    /\ WF_vars(ReadEOF)
    /\ WF_vars(ExitCheck)
    /\ WF_vars(StartPass2)
    /\ WF_vars(ProcExit)
    /\ WF_vars(BatchEnter)
    /\ WF_vars(BatchLoop)
    /\ WF_vars(BatchSetup)
    /\ WF_vars(BatchWait)
    /\ WF_vars(BatchEngineStop)
    /\ WF_vars(BatchJoin)
    /\ WF_vars(BatchCheck)
    /\ WF_vars(BatchAfter)

SpecBatchRun == InitBatch /\ [][NextBatchRun]_vars /\ FairBatchRun

\* The detector on its own (FFmpegManager.__init__ builds it, the main window
\* asks it for encoders); no conversion runs.
InitGpu ==
    /\ windows \in BOOLEAN
    /\ GpuNew("detect")
    /\ EngineInit(FALSE, "idle")
    /\ BatchIdle("off")
    /\ UiIdle

NextGpu ==
    \/ DetectHardware
    \/ IdentifyGpus
    \/ ProbeStep
    \/ GetBestEncoder
    \/ Return

SpecGpu == InitGpu /\ [][NextGpu]_vars

\* The trial encodes of _detect_gpu_capabilities on their own.
InitTrial ==
    /\ windows \in BOOLEAN
    /\ GpuNew("trial")
    /\ EngineInit(FALSE, "idle")
    /\ BatchIdle("off")
    /\ UiIdle

NextTrial ==
    \/ TestEncoder
    \/ TestReturn

SpecTrial == InitTrial /\ [][NextTrial]_vars

\* get_encoder_preset on its own; it reads nothing of the detector.
InitPreset ==
    /\ windows \in BOOLEAN
    /\ GpuNew("preset")
    /\ EngineInit(FALSE, "idle")
    /\ BatchIdle("off")
    /\ UiIdle

NextPreset ==
    \/ GetEncoderPreset
    \/ PresetReturn

SpecPreset == InitPreset /\ [][NextPreset]_vars

\* _parse_error on its own, for the stderr of one failed conversion after
\* another.
InitError ==
    /\ windows = FALSE
    /\ GpuNew("exited")
    /\ EngineInit(FALSE, "idle")
    /\ BatchIdle("off")
    /\ UiIdle

NextError ==
    \/ FailedExit
    \/ NextFailure

SpecError == InitError /\ [][NextError]_vars

\* The main window building commands on a finished detector.
NextCommand ==
    \/ DetectHardware
    \/ IdentifyGpus
    \/ ProbeStep
    \/ CallBuildFfmpegCommand
    \/ BuildFfmpegCommand
    \/ BuildTwoPassOrFallBack
    \/ BuildReturn

SpecCommand == InitGpu /\ [][NextCommand]_vars

\* The codec selector on its own, asked again and again.
InitCodec ==
    /\ windows = FALSE
    /\ GpuNew("select")
    /\ EngineInit(FALSE, "idle")
    /\ BatchIdle("off")
    /\ UiIdle

NextCodec ==
    \/ GetBestCodec
    \/ BestCodecReturn

SpecCodec == InitCodec /\ [][NextCodec]_vars

\* The remaining-time estimate on its own, for one progress line after another.
InitEta ==
    /\ windows = FALSE
    /\ GpuNew("timing")
    /\ EngineInit(FALSE, "idle")
    /\ BatchIdle("off")
    /\ UiIdle

NextEta ==
    \/ EstimateRemaining
    \/ EstimateEmitted

SpecEta == InitEta /\ [][NextEta]_vars

\* The main window building two-pass jobs, for single conversions and for
\* batches, while the clock advances; no job runs yet.
InitBuild ==
    /\ UiIdle
    /\ EngineInit(FALSE, "idle")
    /\ BatchIdle("off")
    /\ GpuOff

NextBuild ==
    \/ BuildTwoPassCommands
    \/ Tick

SpecBuild == InitBuild /\ [][NextBuild]_vars

\* =================================================================== claims

\* ---- C1 (as stated): for a two-pass job, the pass-2 process is spawned only
\* after pass 1 exited with return code 0, and whenever pass 1 has exited
\* non-zero and the worker has returned, conversion_error was emitted.
C1_FailedPass1AlwaysReported ==
    twoPass =>
        /\ proc[2] # "none" => proc[1] = "exit0"
        /\ (pc["w"] = "done" /\ proc[1] = "exit1") => (proc[2] = "none" /\ nError = 1)

\* ---- C1 (amended): the pass-2 process is spawned only after pass 1 exited
\* with return code 0, so never after a non-zero exit; and when pass 1 has
\* exited non-zero, the worker has returned and stop() was not called,
\* conversion_error was emitted.
C1_Pass2OnlyAfterSuccess ==
    twoPass =>
        /\ proc[2] # "none" => proc[1] = "exit0"
        /\ proc[1] = "exit1" => proc[2] = "none"
        /\ (pc["w"] = "done" /\ proc[1] = "exit1" /\ ~should_stop) => nError = 1

C1_Witness ==
    /\ twoPass /\ pc["w"] = "done" /\ proc[1] = "exit1" /\ ~should_stop
    /\ nError = 1 /\ cause = "exit" /\ proc[2] = "none"

C3_NoErrorAfterStop ==
    [][(should_stop /\ pc["w"] \in {"read", "wait"}) => nError' = nError]_vars

\* ---- C4: for a two-pass job, a step that emits a terminal event while no
\* stop was requested leaves no pass-log file behind.
C4_LogRemovedAtTerminal ==
    [][(twoPass /\ ~should_stop /\ nFinished' + nError' > nFinished + nError)
          => ~logFile']_vars

\* ---- C5: after stop() on a two-pass engine, once stop() has returned and the
\* worker has returned, no pass-log file exists.
C5_NoLogAfterStop ==
    (twoPass /\ should_stop /\ pc["c"] = "ret" /\ pc["w"] = "done") => ~logFile

\* ---- C6: at most one process of an engine is alive at any time; the pass-2
\* process exists only once the pass-1 process has exited.
C6_OneProcessAlive ==
    /\ ~(Alive(1) /\ Alive(2))
    /\ proc[2] # "none" => Exited(1)

C6_Witness == Alive(2) /\ Exited(1) /\ process = 2

\* ---- C7: process_all never has two jobs active: at most one job has status
\* 'processing' and at most one engine process is alive.
C7_OneJobActive ==
    /\ Cardinality({j \in Jobs : status[j] = "processing"}) <= 1
    /\ AliveProcs + orphans <= 1

\* Job j is recorded according to what happened to it: 'completed' exactly
\* when its engine emitted conversion_finished, 'failed' exactly when its
\* engine emitted conversion_error or its set-up raised.
C8_Recorded(j) ==
    /\ status[j] = "completed" <=> engineResult[j] = "finished"
    /\ status[j] = "failed" <=> engineResult[j] \in {"error", "setup"}
    /\ status[j] \in {"completed", "failed"}

\* ---- C8: when all_jobs_completed is emitted every job was started and is
\* 'completed' or 'failed' according to its own engine's terminal event (or
\* to the exception that stopped its set-up), so completed + failed is the
\* number of jobs; before that, with no stop request, every job before the
\* current one is already recorded that way.
C8_FailureIsolated ==
    /\ allDone > 0 =>
          /\ nStarted = MaxJobs
          /\ \A j \in Jobs : C8_Recorded(j)
          /\ Cardinality({j \in Jobs : status[j] = "completed"})
               + Cardinality({j \in Jobs : status[j] = "failed"}) = MaxJobs
    /\ (bpc \notin {"off", "entry"} /\ ~bstop) =>
          \A j \in Jobs : j < index => C8_Recorded(j)

C8_Witness ==
    /\ allDone = 1
    /\ status[1] = "completed" /\ status[2] = "failed" /\ status[3] = "completed"
    /\ engineResult[2] = "error"

\* ---- C9: when BatchProcessor.stop() is called while job i is running,
\* process_all calls stop() on job i's engine before it goes on, starts no
\* later job and does not emit all_jobs_completed.
C9_StopHaltsQueue ==
    stopAt # 0 =>
        /\ nStarted = stopAt
        /\ index = stopAt
        /\ allDone = 0
        /\ bpc \notin {"waiting", "afterwait"} => engineStopped[stopAt]

C9_Witness == stopAt = 2 /\ bpc = "done" /\ engineStopped[2] /\ nStarted = 2

\* ---- C10: within one pass the progress values of successive
\* progress_updated events never decrease.
C10_ProgressMonotone ==
    [][(lastProg # -1 /\ lastProg' # -1) => lastProg' >= lastProg]_vars

\* ---- C11: every progress_updated event carries progress in 0..100; in a
\* two-pass job the events of pass 1 carry 0..50 and those of pass 2 carry
\* 50..100; the event's current_pass is 1 or 2 and at most its total_passes,
\* and total_passes is 2 exactly when a pass-2 command was given, else 1.
C11_ProgressRanges ==
    /\ lastEvent.signal = "progress" =>
          /\ lastEvent.current_pass \in {1, 2}
          /\ lastEvent.current_pass <= lastEvent.total_passes
          /\ lastEvent.total_passes = (IF twoPass THEN 2 ELSE 1)
    /\ lastProg # -1 =>
          /\ lastProg \in 0..100
          /\ (twoPass /\ lastEvent.current_pass = 1) => lastProg \in 0..50
          /\ (twoPass /\ lastEvent.current_pass = 2) => lastProg \in 50..100

C11_Witness ==
    /\ twoPass /\ lastProg = 75
    /\ lastEvent = [signal |-> "progress", current_pass |-> 2, total_passes |-> 2]

\* The progress the claim C12 gives for a time= line of c seconds after a
\* Duration of T seconds: p = min(100, floor(100*c/T)) for one pass,
\* floor(p/2) in pass 1 of two, floor(50 + p/2) in pass 2 of two.
C12_Claimed(c, T, two, pass) ==
    LET p == Min(100, (100 * c) \div T)
    IN  IF ~two THEN p ELSE IF pass = 1 THEN p \div 2 ELSE 50 + (p \div 2)

\* ---- C12: after a Duration line giving T > 0 seconds, a time= line giving c
\* seconds produces progress min(100, floor(100*c/T)) in a single-pass job,
\* and floor(p/2) resp. floor(50 + p/2) of that value p in pass 1 resp. 2 of a
\* two-pass job.
C12_ProgressIsFloor ==
    lastProg # -1 => lastProg = C12_Claimed(current_seconds, total, twoPass, current_pass)

\* ---- C13: once the engine has emitted conversion_finished or
\* conversion_error it emits no further progress_updated, and a progress
\* event of pass 1 never follows one of pass 2.
C13_TerminalIsLast ==
    [][/\ nFinished + nError > 0 => lastEvent'.signal # "progress"
       /\ lastEvent'.current_pass >= lastEvent.current_pass]_vars

C13_Witness ==
    /\ nFinished = 1 /\ pc["w"] = "done"
    /\ lastEvent = [signal |-> "finished", current_pass |-> 2, total_passes |-> 2]

\* ---- C14: _terminate_process sends kill to a process only after terminate
\* was sent to it, and only when the wait after terminate found it not
\* exited; when it returns, the pipes of the process are closed.
C14_TerminateThenKill ==
    [][/\ \A p \in Procs : sent'[p] # "kill"
       /\ \A t \in {"w", "c"} :
            /\ (pc[t] = "t_wait" /\ pc'[t] = "t_kill") => ~Exited(process)
            /\ (pc[t] = "t_close" /\ pc'[t] = "cleanup") => closed'[process]]_vars

\* C15: whatever the codec, the preferred vendor, the container and the
\* probe results, get_best_encoder returns an encoder that is listed in
\* supported_encoders or one of the five software encoders; never an empty
\* name or a hardware encoder that is not listed.
C15_EncoderListedOrSoftware ==
    gpc = "asked" => answer.encoder \in supported_encoders \cup SoftwareEncoders

\* C15 happens: a listed hardware encoder was returned for a verified codec.
C15_Witness ==
    /\ gpc = "asked"
    /\ query.codec = "hevc"
    /\ answer.encoder = "hevc_nvenc"
    /\ "hevc_nvenc" \in supported_encoders

\* C16: asked with preferred_gpu 'none', get_best_encoder returns the software
\* encoder of the table for (codec, container) with an empty warning, whatever
\* was detected and listed.
C16_NoneIsSoftware ==
    (gpc = "asked" /\ query.preferred_gpu = "none") =>
        /\ answer.encoder \in SoftwareEncoders
        /\ answer.encoder = SoftwareEncoder(query.codec, query.container)
        /\ answer.warning = ""

\* C16 happens: 'none' was asked although the first GPU has the codec verified.
C16_Witness ==
    /\ gpc = "asked"
    /\ query.preferred_gpu = "none"
    /\ has_gpu_support
    /\ query.codec \in supported_codecs[detected_gpus[1]]
    /\ answer.encoder \in SoftwareEncoders

\* The vendor a call chooses: the first detected GPU's for 'auto', else the
\* one asked for.
C17_Chosen ==
    IF query.preferred_gpu = "auto" THEN detected_gpus[1] ELSE query.preferred_gpu

\* C17: when a GPU is detected and the chosen vendor (not 'none') is not among
\* the detected GPUs, or its verified codecs do not contain the requested
\* codec, get_best_encoder returns the software encoder for (codec, container)
\* with a non-empty warning.
C17_UnverifiedFallsBack ==
    (/\ gpc = "asked"
     /\ query.preferred_gpu # "none"
     /\ has_gpu_support
     /\ \/ \A i \in 1..Len(detected_gpus) : detected_gpus[i] # C17_Chosen
        \/ query.codec \notin supported_codecs[C17_Chosen])
    => /\ answer.encoder = SoftwareEncoder(query.codec, query.container)
       /\ answer.encoder \in SoftwareEncoders
       /\ answer.warning # ""

\* C17 happens: NVIDIA verified h264 only and was asked for hevc, although
\* hevc_nvenc is listed.
C17_Witness ==
    /\ gpc = "asked"
    /\ query.preferred_gpu = "nvidia"
    /\ query.codec = "hevc"
    /\ supported_codecs["nvidia"] = {"h264"}
    /\ "hevc_nvenc" \in supported_encoders
    /\ answer.encoder = "libx265"
    /\ answer.warning # ""

\* The hardware encoder the chosen vendor maps the requested codec to.
C18_Mapped == encoder_map(C17_Chosen)[query.codec]

\* C18: when the requested codec is verified on the chosen GPU but the mapped
\* hardware encoder does not fit the container (an h264 or hevc encoder into
\* webm, a vp8 or vp9 encoder into mp4, mov or m4v), get_best_encoder returns
\* the software encoder with a non-empty warning, not the hardware encoder.
C18_IncompatibleFallsBack ==
    (/\ gpc = "asked"
     /\ query.preferred_gpu # "none"
     /\ has_gpu_support
     /\ \E i \in 1..Len(detected_gpus) : detected_gpus[i] = C17_Chosen
     /\ query.codec \in supported_codecs[C17_Chosen]
     /\ \/ /\ query.container = "webm"
           /\ CodecPart(C18_Mapped) \in {"h264", "hevc"}
        \/ /\ query.container \in {"mp4", "mov", "m4v"}
           /\ CodecPart(C18_Mapped) \in {"vp8", "vp9"})
    => /\ answer.encoder = SoftwareEncoder(query.codec, query.container)
       /\ answer.encoder \in SoftwareEncoders
       /\ answer.warning # ""

\* C18 happens: Intel verified vp9 and vp9_qsv is listed, the target is mp4.
C18_Witness ==
    /\ gpc = "asked"
    /\ query = [codec |-> "vp9", preferred_gpu |-> "intel", container |-> "mp4"]
    /\ "vp9" \in supported_codecs["intel"]
    /\ "vp9_qsv" \in supported_encoders
    /\ answer.encoder = "libvpx-vp9"
    /\ answer.warning # ""

\* C19: asked with 'auto', get_best_encoder returns exactly what it returns
\* for the vendor of the first detected GPU (detection order NVIDIA, Intel,
\* AMD); a GPU detected later is not consulted.
C19_AutoIsFirstGpu ==
    (gpc = "asked" /\ query.preferred_gpu = "auto" /\ detected_gpus # <<>>) =>
        /\ answer = get_best_encoder(query.codec, detected_gpus[1], query.container)
        /\ \A i, j \in 1..Len(detected_gpus) :
             (i < j /\ detected_gpus[i] = "intel") => detected_gpus[j] = "amd"
        /\ \A i \in 2..Len(detected_gpus) : detected_gpus[i] # "nvidia"

\* C19 happens: NVIDIA is detected first without the codec, Intel second with
\* the codec verified and its encoder listed; 'auto' still answers software.
C19_Witness ==
    /\ gpc = "asked"
    /\ query.preferred_gpu = "auto"
    /\ detected_gpus = <<"nvidia", "intel">>
    /\ query.codec \notin supported_codecs["nvidia"]
    /\ query.codec \in supported_codecs["intel"]
    /\ answer.encoder \in SoftwareEncoders
    /\ answer.warning # ""

\* C20: a codec is in a GPU's supported_codecs only if one of the vendor's
\* candidate encoders for it was listed in supported_encoders and its trial
\* encode succeeded; the pseudo-GPU 'none' has no supported codecs.
C20_VerifiedOnlyByTrial ==
    /\ \A v \in Vendors : \A c \in supported_codecs[v] :
         \E i \in 1..Len(codecs_to_test(v)) :
            /\ CodecPart(codecs_to_test(v)[i]) = c
            /\ codecs_to_test(v)[i] \in supported_encoders
            /\ codecs_to_test(v)[i] \in passed
    /\ supported_codecs["none"] = {}
    /\ \A i \in 1..Len(detected_gpus) :
         detected_gpus[i] = "none" => ~has_gpu_support

\* C20 happens: probing is over; one listed encoder passed its trial and gave
\* its codec, another listed encoder of the same GPU failed and gave nothing.
C20_Witness ==
    /\ gpc = "ready"
    /\ supported_encoders = {"h264_nvenc", "hevc_nvenc"}
    /\ passed = {"h264_nvenc"}
    /\ supported_codecs["nvidia"] = {"h264"}

\* C21: _test_encoder returns True exactly when the trial process ran, exited
\* with code 0 and wrote none of the failure phrases to stderr, in whatever
\* case; a timeout, a launch failure, a non-zero exit or a failure phrase gives
\* False (a value is returned in every case: no exception escapes).
C21_SupportedIffCleanExit ==
    gpc = "tested" =>
        /\ answer \in BOOLEAN
        /\ answer <=>
             /\ query.launch = "ok"
             /\ query.returncode = 0
             /\ \A i \in 1..Len(query.stderr) :
                  query.stderr[i].phrase \in {"frame= 1 fps=0.0", "is supported"}

\* C21 happens: the trial exited with code 0 but wrote a failure phrase in
\* upper case, and was classified unsupported.
C21_Witness ==
    /\ gpc = "tested"
    /\ query.launch = "ok"
    /\ query.returncode = 0
    /\ query.stderr = << [phrase |-> "no capable devices", case |-> "upper"] >>
    /\ answer = FALSE

\* C22: while the constructor runs, a listing command that timed out or could
\* not be launched has left its list empty; when every command failed the GPU
\* list is the single 'none' entry, and when no command was run (no ffmpeg
\* binary) it is empty; whenever no NVIDIA, Intel or AMD GPU is in the list,
\* the list is one of these two and has_gpu_support() is false.
C22_FailuresDegrade ==
    /\ gpc \in {"identify", "probe"} =>
          /\ ran["hwaccels"] # "ok" => supported_hwaccels = {}
          /\ ran["encoders"] # "ok" => supported_encoders = {}
          /\ ran["decoders"] # "ok" => supported_decoders = {}
    /\ (gpc = "probe" /\ \A c \in Commands : ran[c] # "ok") =>
          /\ detected_gpus = (IF ran = NotRun THEN <<>> ELSE <<"none">>)
          /\ ~has_gpu_support
    /\ (/\ gpc \in {"probe", "ready", "asked"}
        /\ \A i \in 1..Len(detected_gpus) :
             detected_gpus[i] \notin {"nvidia", "intel", "amd"}) =>
          /\ detected_gpus \in {<<>>, <<"none">>}
          /\ ~has_gpu_support
          /\ \A v \in Vendors : supported_codecs[v] = {}

\* C22 happens: the three commands failed, one by timeout, and the detector
\* came out with the CPU entry only.
C22_Witness ==
    /\ gpc = "probe"
    /\ ran = [c \in Commands |-> IF c = "encoders" THEN "timeout" ELSE "oserror"]
    /\ supported_hwaccels = {} /\ supported_encoders = {} /\ supported_decoders = {}
    /\ detected_gpus = <<"none">>
    /\ ~has_gpu_support

\* The family the name of the encoder of the current call belongs to.
C23_Family ==
    IF query.encoder.name \in SoftwareEncoders THEN "cpu"
    ELSE (CHOOSE t \in HwEncoderParts : t[1] = query.encoder.name)[3]

\* C23: get_encoder_preset returns, for an encoder that is none of nvenc, qsv,
\* amf, vaapi, the user preset unchanged or 'medium' when none is given; for
\* nvenc one of p1..p7, p4 for an unknown or missing preset; for qsv the user
\* preset when it is one of the seven QSV names, else 'medium'; for amf one of
\* quality, balanced, speed; for vaapi no preset.
C23_PresetVocabulary ==
    gpc = "preset_asked" =>
        LET up == query.user_preset
            qsv == {"veryslow", "slower", "slow", "medium", "fast", "faster", "veryfast"}
        IN  CASE C23_Family = "cpu" ->
                   answer = (IF up \in {"", "None"} THEN "medium" ELSE up)
              [] C23_Family = "nvenc" ->
                   /\ answer \in {"p1", "p2", "p3", "p4", "p5", "p6", "p7"}
                   /\ up \in {"placebo", "", "None"} => answer = "p4"
              [] C23_Family = "qsv" ->
                   /\ answer \in qsv
                   /\ answer = (IF up \in qsv THEN up ELSE "medium")
              [] C23_Family = "amf" -> answer \in {"quality", "balanced", "speed"}
              [] C23_Family = "vaapi" -> answer = "None"

\* C23 happens: an NVENC encoder written in upper case, asked with a preset
\* the map does not know, got p4.
C23_Witness ==
    /\ gpc = "preset_asked"
    /\ query.encoder = [name |-> "hevc_nvenc", upper |-> TRUE]
    /\ query.user_preset = "placebo"
    /\ answer = "p4"

\* C24: any two two-pass jobs built by _build_two_pass_commands have different
\* passlogfile paths, also when their output files have the same stem and the
\* clock gave both the same millisecond.
C24_PasslogfilesDiffer ==
    \A i, j \in 1..Len(built) : i # j => built[i].passlogfile # built[j].passlogfile

\* start() has returned and no process was ever spawned: the launch of pass 1
\* failed.
C25_LaunchFailed == pc["w"] = "done" /\ process = 0

\* C25: when pass 1 cannot be launched, start() has emitted exactly one
\* conversion_error, with the message of the kind of failure, no
\* progress_updated and no conversion_finished, and no process exists; in a
\* batch with no stop request the next step of process_all records the job as
\* 'failed' and returns to the loop, which starts the next job.
C25_LaunchFailureReported ==
    /\ [](C25_LaunchFailed =>
            /\ nError = 1
            /\ nFinished = 0
            /\ cause \in {"launch_not_found", "launch_no_permission", "launch_failed"}
            /\ lastEvent = [NoEvent EXCEPT !.signal = "error"]
            /\ lastProg = -1
            /\ \A p \in Procs : proc[p] = "none")
    /\ [][/\ (C25_LaunchFailed /\ bpc = "check" /\ bpc' # bpc /\ ~bstop) =>
               /\ status'[index] = "failed"
               /\ bpc' = "loop"
               /\ index' = index + 1
          /\ (C25_LaunchFailed /\ bpc = "loop" /\ bpc' # bpc /\ ~bstop /\ index <= MaxJobs) =>
               /\ bpc' = "setup"
               /\ status'[index] = "processing"
               /\ nStarted' = nStarted + 1]_vars

\* C25 happens: the binary of job 1 was missing, job 1 is 'failed' and job 2
\* has been started.
C25_Witness ==
    /\ C25_LaunchFailed
    /\ cause = "launch_not_found"
    /\ nError = 1
    /\ bpc = "setup"
    /\ index = 2
    /\ status[1] = "failed"
    /\ status[2] = "processing"

\* The words found, whatever their case, in the last 20 lines of the stderr
\* that was read.
C26_TailWords ==
    LET n == Len(query)
    IN  UNION {query[i].words : i \in {k \in 1..n : k > n - 20}}

\* The positions, among the last 20 lines, of the lines with 'error' or
\* 'failed'.
C26_ErrorPositions ==
    LET n == Len(query)
    IN  {i \in 1..n : i > n - 20 /\ query[i].words \cap {"error", "failed"} # {}}

\* The acceleration and the filesystem messages, in the order of priority,
\* each with its condition on the words found.
C26_Priority(words) ==
    << [kind |-> "nvidia", when |-> "cuda" \in words /\ words \cap {"failed", "error"} # {}],
       [kind |-> "qsv", when |-> {"qsv", "cannot load"} \subseteq words],
       [kind |-> "amf", when |-> {"amf", "failed"} \subseteq words],
       [kind |-> "vaapi", when |-> "vaapi" \in words /\ words \cap {"failed", "error"} # {}],
       [kind |-> "file_not_found", when |-> "no such file or directory" \in words],
       [kind |-> "permission_denied", when |-> "permission denied" \in words],
       [kind |-> "invalid_codec", when |-> {"invalid", "codec"} \subseteq words],
       [kind |-> "disk_full", when |-> words \cap {"disk full", "no space"} # {}] >>

\* C26: the message of a failed exit depends on the last 20 lines only; it is
\* the message of the first matching entry in the order NVIDIA, QSV, AMF,
\* VA-API, file not found, permission denied, invalid codec, disk full (so an
\* acceleration match wins over a filesystem match); with no match it is the
\* last line with 'error' or 'failed', cut to at most 200 characters; with no
\* such line it is the generic message; it is never empty.
C26_MessageFromTail ==
    gpc = "reported" =>
        LET priority == C26_Priority(C26_TailWords)
            matches  == {k \in 1..Len(priority) : priority[k].when}
            errors   == C26_ErrorPositions
        IN  /\ matches # {} =>
                 \E k \in matches :
                    /\ \A m \in matches : k <= m
                    /\ answer.kind = priority[k].kind
            /\ (matches = {} /\ errors # {}) =>
                 \E i \in errors :
                    /\ \A k \in errors : k <= i
                    /\ answer.kind = "line"
                    /\ answer.line.words = query[i].words
                    /\ answer.line.upper = query[i].upper
                    /\ answer.line.chars = Min(query[i].chars, 200)
            /\ (matches = {} /\ errors = {}) => answer.kind = "generic"
            /\ answer.kind = "line" => answer.line.chars \in 1..200

\* C26 happens: a missing file was reported more than 20 lines before the end
\* and the last 20 lines hold one long line with 'Error': the message is that
\* line, cut.
C26_Witness ==
    /\ gpc = "reported"
    /\ Len(query) = 21
    /\ "no such file or directory" \in query[1].words
    /\ query[2].chars = 250
    /\ answer.kind = "line"
    /\ answer.line.chars = 200

\* C27: once stop() has set _should_stop, no step of the engine spawns a
\* process; in particular pass 2 is not launched after a stop() that came when
\* pass 1 had been read to its end.
C27_NoSpawnAfterStop ==
    [][should_stop => \A p \in Procs : proc'[p] = "running" => proc[p] = "running"]_vars

\* C28: a stop() that is called after the batch thread was started and before
\* process_all has reached its loop is not lost: the request is still set
\* after the next step of process_all, no job is started and
\* all_jobs_completed is not emitted.
C28_EarlyStopKept ==
    [][(bpc = "entry" /\ bstop) => (bstop' /\ nStarted' = 0 /\ allDone' = 0)]_vars

\* C29: when process_all has returned, with or without a stop request, no job
\* has status 'processing': every job that was started is 'completed' or
\* 'failed', and the job whose engine's conversion_finished was received
\* before process_all left the loop is 'completed'.
C29_NoJobLeftProcessing ==
    bpc = "done" =>
        /\ \A j \in Jobs : status[j] \in {"pending", "completed", "failed"}
        /\ \A j \in Jobs :
              (j = index /\ nStarted = j /\ conversion_finished /\ ~conversion_error)
                  => status[j] = "completed"

\* C30: the signals of process_all come in order.  job_started(i) is emitted
\* for the next job of the queue, when every earlier job has had its terminal
\* signal; job_progress(i) is emitted only for a job that was started and has
\* had no terminal signal; job_completed(i) or job_failed(i) is emitted only
\* for the job being processed, which has had none, so at most once;
\* all_jobs_completed is emitted at most once and no signal follows it.
C30_SignalOrder ==
    [][/\ allDone' <= 1
       /\ allDone > 0 => (lastSignal' = lastSignal /\ status' = status /\ nStarted' = nStarted)
       /\ \A j \in Jobs :
            /\ status'[j] # status[j] => (lastSignal' # lastSignal /\ lastSignal'.job = j)
            /\ status[j] \in {"completed", "failed"} => status'[j] = status[j]
       /\ nStarted' # nStarted => lastSignal'.name = "job_started"
       /\ allDone' # allDone => lastSignal'.name = "all_jobs_completed"
       /\ lastSignal' # lastSignal =>
            LET i == lastSignal'.job
            IN  CASE lastSignal'.name = "job_started" ->
                       /\ i = nStarted + 1
                       /\ nStarted' = i
                       /\ status[i] = "pending"
                       /\ \A j \in 1..(i - 1) : status[j] \in {"completed", "failed"}
                  [] lastSignal'.name = "job_progress" ->
                       /\ i \in 1..nStarted
                       /\ status[i] = "processing"
                       /\ status'[i] = "processing"
                  [] lastSignal'.name \in {"job_completed", "job_failed"} ->
                       /\ i = nStarted
                       /\ status[i] = "processing"
                       /\ status'[i] = (IF lastSignal'.name = "job_failed"
                                        THEN "failed" ELSE "completed")
                  [] lastSignal'.name = "all_jobs_completed" ->
                       /\ allDone = 0
                       /\ allDone' = 1
                       /\ bpc' = "done"
                  [] OTHER -> FALSE]_vars

\* C30 happens: job 1 has had its terminal signal, job 2 was started and its
\* job_progress is the last signal.
C30_Witness ==
    /\ lastSignal = Signal("job_progress", 2)
    /\ status[1] = "completed"
    /\ status[2] = "processing"
    /\ nStarted = 2
    /\ bpc = "waiting"

\* C31: with no stop request and processes that end their stream and exit,
\* every engine that process_all waits for emits its terminal event, and
\* process_all returns, having started every job of the queue and emitted
\* all_jobs_completed.
C31_RunsToTheEnd ==
    /\ [](bpc = "waiting" => <>(bpc = "waiting" /\ nFinished + nError > 0))
    /\ <>(bpc = "done" /\ nStarted = MaxJobs /\ allDone = 1)

\* C31 happens: process_all has returned after the last job, a two-pass job
\* whose second pass ended with conversion_finished.
C31_Witness ==
    /\ bpc = "done"
    /\ nStarted = MaxJobs
    /\ allDone = 1
    /\ twoPass
    /\ current_pass = 2
    /\ nFinished = 1
    /\ \A j \in Jobs : status[j] \in {"completed", "failed"}

\* C32: get_best_encoder gives a non-empty warning exactly when a vendor or
\* 'auto' was asked for and the encoder returned is a software encoder; a
\* hardware encoder and a request for 'none' come with an empty warning.
C32_WarningIffSoftwareFallback ==
    gpc = "asked" =>
        /\ (query.preferred_gpu \in {"auto", "nvidia", "intel", "amd"}
              /\ answer.encoder \in SoftwareEncoders) => answer.warning # ""
        /\ (answer.encoder \in HwEncoders \/ query.preferred_gpu = "none")
              => answer.warning = ""

\* C33: the encoder get_best_encoder returns, hardware or software, is
\* compatible with the container asked for, as is_codec_container_compatible
\* judges it.
C33_EncoderFitsContainer ==
    gpc = "asked" => is_codec_container_compatible(answer.encoder, query.container)

\* C34: for codec 'h265' get_best_encoder returns the encoder it returns for
\* codec 'hevc' with the same preferred GPU and container on the same
\* detector.
C34_H265IsHevc ==
    (gpc = "asked" /\ query.codec = "h265") =>
        answer.encoder = get_best_encoder("hevc", query.preferred_gpu, query.container).encoder

\* The generic scale, fastest first, and the encoder-specific presets in the
\* same order: p1..p7 for nvenc, the names of the scale for qsv, speed,
\* balanced, quality for amf.
C35_Scale ==
    <<"ultrafast", "superfast", "veryfast", "faster", "fast", "medium", "slow",
      "slower", "veryslow">>

C35_Slowness(preset) ==
    CASE preset \in {"p1", "speed"}    -> 1
      [] preset \in {"p2", "balanced"} -> 2
      [] preset \in {"p3", "quality"}  -> 3
      [] preset = "p4" -> 4
      [] preset = "p5" -> 5
      [] preset = "p6" -> 6
      [] preset = "p7" -> 7
      [] OTHER -> 10 + (CHOOSE k \in 1..Len(C35_Scale) : C35_Scale[k] = preset)

\* C35: for an nvenc, qsv or amf encoder, the preset returned for a user
\* preset of the generic scale is not faster than the preset returned for any
\* faster user preset.
C35_PresetOrderKept ==
    (/\ gpc = "preset_asked"
     /\ \E x \in {"nvenc", "qsv", "amf"} : InLower(x, query.encoder)
     /\ \E k \in 1..Len(C35_Scale) : C35_Scale[k] = query.user_preset)
    => LET k == CHOOSE n \in 1..Len(C35_Scale) : C35_Scale[n] = query.user_preset
       IN  \A f \in 1..(k - 1) :
              C35_Slowness(get_encoder_preset(query.encoder, C35_Scale[f]))
                  <= C35_Slowness(answer)

\* The estimate a single-pass job gets from the same elapsed, current and
\* total values.
C36_SinglePass == RemainingTime([query EXCEPT !.two = FALSE, !.pass = 1])

\* C36 as stated: in pass 1 of a two-pass job the remaining time is twice the
\* remaining time of a single-pass job with the same values; it is never
\* negative; it is the placeholder exactly while the current time is 0.
C36_TwiceSinglePass ==
    gpc = "estimated" =>
        /\ answer.placeholder <=> query.current = 0
        /\ answer.times_current >= 0
        /\ (query.two /\ query.pass = 1 /\ query.current > 0) =>
              answer.times_current = 2 * C36_SinglePass.times_current

\* C36 amended: in pass 1 of a two-pass job the remaining time is never less
\* than that of a single-pass job with the same values, and while the
\* current time is below the total it is that remaining time plus one
\* projected pass, elapsed * total / current; it is never negative; it is the
\* placeholder exactly while the current time is 0.
C36_SinglePassPlusOnePass ==
    gpc = "estimated" =>
        /\ answer.placeholder <=> query.current = 0
        /\ answer.times_current >= 0
        /\ (query.two /\ query.pass = 1 /\ query.current > 0) =>
              /\ answer.times_current >= C36_SinglePass.times_current
              /\ query.current < query.total =>
                    answer.times_current
                        = C36_SinglePass.times_current + query.elapsed * query.total
        /\ ~(query.two /\ query.pass = 1) => answer = C36_SinglePass

\* C36 happens: 2 s elapsed, time=1 of 3 in pass 1 of two: one pass is
\* projected at 6 s, the single-pass estimate is 4 s and the estimate given is
\* 10 s, not 8 s.
C36_Witness ==
    /\ gpc = "estimated"
    /\ query = [elapsed |-> 2, current |-> 1, total |-> 3, two |-> TRUE, pass |-> 1]
    /\ answer.times_current = 10
    /\ C36_SinglePass.times_current = 4

\* C37: while a pass is being read a captured total is not changed by a later
\* Duration line; a progress event is emitted only with a captured total
\* above zero, and the values of a progress event are kept only with such a
\* total; when a process is launched (pass 1, pass 2) no total is captured.
C37_FirstDurationOnly ==
    /\ [](lastProg # -1 => total > 0)
    /\ [][/\ (pc["w"] = "read" /\ pc'["w"] = "read" /\ total # -1) => total' = total
          /\ (lastProg' # -1 /\ <<lastEvent, lastProg, current_seconds>>'
                                    # <<lastEvent, lastProg, current_seconds>>)
                => (total > 0 /\ total' = total)
          /\ process' # process => (total = -1 /\ total' = -1)]_vars

\* C37 happens: pass 2 is being read, its total was captured as 1 s and a
\* progress event for time=2 was emitted from it.
C37_Witness ==
    /\ pc["w"] = "read"
    /\ process = 2
    /\ total = 1
    /\ current_seconds = 2
    /\ lastEvent = [signal |-> "progress", current_pass |-> 2, total_passes |-> 2]

\* The score of a profile for the purpose asked, with the +5 of a
\* GPU-supported codec.
C40_Score(i) ==
    PurposeScore(codec_database[i], query.purpose, query.has_gpu, query.gpu_supported_codecs)
    + (IF query.has_gpu /\ codec_database[i].name \in query.gpu_supported_codecs
       THEN 5 ELSE 0)

\* The profiles (by position in the table) compatible with the container asked.
C40_Compatible ==
    {i \in 1..Len(codec_database) : query.container \in codec_database[i].compatible_containers}

\* C40: the codec returned is compatible with the container, no compatible
\* codec has a greater score, and every compatible codec of the same score
\* comes later in the table; with no compatible codec it is H.264, with the
\* reason that says so.
C40_BestCompatibleCodec ==
    gpc = "selected" =>
        IF C40_Compatible = {}
        THEN answer = [codec |-> codec_database[1], reason |-> <<"no_compatible">>]
        ELSE \E b \in C40_Compatible :
               /\ answer.codec = codec_database[b]
               /\ \A i \in C40_Compatible :
                     /\ C40_Score(i) <= C40_Score(b)
                     /\ C40_Score(i) = C40_Score(b) => b <= i
               /\ answer.reason # <<>>
               /\ answer.reason # <<"no_compatible">>

\* C40 happens: for webm and the universal purpose, with a GPU supporting vp8
\* and av1, VP8 and AV1 both score 27 over VP9's 25, and VP8 is returned.
C40_Witness ==
    /\ gpc = "selected"
    /\ query = [container |-> "webm", purpose |-> "universal", has_gpu |-> TRUE,
                gpu_supported_codecs |-> {"vp8", "av1"}]
    /\ C40_Score(3) = 27
    /\ C40_Score(5) = 27
    /\ answer.codec.name = "vp8"

\* C38: building a command never ends in RecursionError, and with two-pass
\* enabled and the codec "copy" what is returned is a single-pass command,
\* with no pass-2 command and no passlogfile.
C38_CopyBuildsSinglePass ==
    /\ gpc # "raised"
    /\ (gpc = "built" /\ query.settings.two_pass /\ query.settings.video_codec = "copy")
          => answer = [encoder |-> "copy", pass2_command |-> "None", passlogfile |-> "None"]

\* C39: the two-pass commands name the encoder the single-pass command names
\* for the same codec selection, GPU selection and container.
C39_SameEncoderInBothBuilders ==
    (gpc = "built" /\ answer.pass2_command # "None")
        => answer.encoder = SinglePassEncoder(query.settings.video_codec,
                                              query.settings.selected_gpu,
                                              query.settings.output_format)

====
